---- MODULE Spec2Model ----
(***************************************************************************)
(* SimpleFS: a fixed 64-block file system inside a block container.        *)
(*                                                                         *)
(* The container is modelled byte for byte.  A block is kept as the        *)
(* sequence of its bytes up to the last non-zero byte; the bytes after it, *)
(* up to BLOCK_SIZE, are zero.  A buffer is a record [len, data] with the  *)
(* same convention for data.  A Bitmap ([u64; 512], little-endian) is kept *)
(* as the set of the indices whose bit is 1.                               *)
(*                                                                         *)
(* A panic (unwrap, assert, unimplemented!, slice index out of range) ends *)
(* the process: the handle is lost and the container keeps what was        *)
(* written before the panic.                                               *)
(***************************************************************************)
EXTENDS Integers, Sequences, FiniteSets, TLC

(***************************************************************************)
(* Program constants.                                                      *)
(***************************************************************************)
SB_MAGIC == 1397117762
BLOCK_SIZE == 4096
NODE_SIZE == 256
NODES_PER_BLOCK == BLOCK_SIZE \div NODE_SIZE
SUPERBLOCK_INDEX == 0
DATA_REGION_BMP == 1
INODE_BMP == 2
INODE_START == 3
INODE_BLOCKS == 5
ROOT_DEFAULT_MODE == 16384
DEFAULT_MODE == 8192
BLOCK_SIZE_BYTES == 4096
DeviceBlocks == 64
INODE_CAP == 80
SB_HEADER_LEN == 28
NPADDING == 43
NBLOCKPTRS == 15
BLOCKS_OFFSET == 196
FIRST_DATA_PTR == 8
ALLOC_SCAN_END == 512
CH_SLASH == 47
CH_COLON == 58
CH_NEWLINE == 10
CH_DIGIT0 == 48
MAX_DIGITS == 9
BITMAP_LIMIT == 32767

(***************************************************************************)
(* Bounds of the model.                                                    *)
(***************************************************************************)
\* open_file calls served by one mounted handle
MaxCalls == 3
\* open_file calls served by one mounted handle when paths come from LongPaths
MaxLongCalls == 3
\* indices one NextAvailableAllocation is asked to yield
MaxNext == 4
\* the largest block count of an emulator used on its own; its host file
\* holds one block more
MaxEmuBlocks == 2
\* read_block / write_block calls made on one host file
MaxEmuCalls == 2
\* emulators attached, one after the other, to one host file
MaxEmuHandles == 2
\* new_file calls served by one InodeGroup used on its own
MaxNewFiles == 3
\* open_file calls served by one mounted handle on a device of few blocks
MaxFaultCalls == 5

(***************************************************************************)
(* Bytes, buffers and little/big-endian integers.                          *)
(***************************************************************************)
SetMax(S) == CHOOSE x \in S : \A y \in S : y <= x
SetMin(S) == CHOOSE x \in S : \A y \in S : x <= y
Min2(a, b) == IF a < b THEN a ELSE b

\* byte k (from 0) of a byte sequence that is followed by zeros
ByteAt(s, k) == IF k < Len(s) THEN s[k + 1] ELSE 0

\* a byte sequence without its trailing zeros
Trim(s) ==
    LET nz == {i \in 1..Len(s) : s[i] # 0}
    IN  IF nz = {} THEN <<>>
        ELSE SubSeq(s, 1, CHOOSE i \in nz : \A j \in (i + 1)..Len(s) : s[j] = 0)

MkBuf(n, bytes) == [len |-> n, data |-> Trim(SubSeq(bytes, 1, Min2(n, Len(bytes))))]

Pow256(j) == IF j = 0 THEN 1 ELSE IF j = 1 THEN 256 ELSE IF j = 2 THEN 65536 ELSE 16777216

\* byte j of the little-endian encoding of v
LEByte(v, j) == (v \div Pow256(j)) % 256

U16At(s, off) == ByteAt(s, off) + 256 * ByteAt(s, off + 1)
U32At(s, off) ==
    ByteAt(s, off) + 256 * ByteAt(s, off + 1)
        + 65536 * ByteAt(s, off + 2) + 16777216 * ByteAt(s, off + 3)

\* u32::to_be_bytes / u32::from_be_bytes
BE32(v) == <<(v \div 16777216) % 256, (v \div 65536) % 256, (v \div 256) % 256, v % 256>>
BE32At(s, off) ==
    16777216 * ByteAt(s, off) + 65536 * ByteAt(s, off + 1)
        + 256 * ByteAt(s, off + 2) + ByteAt(s, off + 3)

(***************************************************************************)
(* Results of an operation.                                                *)
(***************************************************************************)
OkRes(v) == [kind |-> "Ok", val |-> v, err |-> ""]
ErrRes(e) == [kind |-> "Err", val |-> 0, err |-> e]
PanicRes(m) == [kind |-> "Panic", val |-> 0, err |-> m]
NoRes == [kind |-> "None", val |-> 0, err |-> ""]

(***************************************************************************)
(* Block storage: the file-backed emulator.                                *)
(***************************************************************************)
ZeroDev == [b \in 0..(DeviceBlocks - 1) |-> <<>>]

\* FileBlockEmulatorBuilder::zero_block: block_count blocks of zeros from the
\* start of the file
zero_block(d, block_count) ==
    [b \in DOMAIN d |-> IF b < block_count THEN <<>> ELSE d[b]]

\* self.block_count - 1 on a usize: 0 - 1 has no value.  With overflow checks
\* the subtraction panics; without them it wraps to usize::MAX
sub_overflows(block_count) == block_count = 0

\* blocknr > (self.block_count - 1); no blocknr is above usize::MAX
beyond_range(block_count, blocknr) ==
    ~sub_overflows(block_count) /\ blocknr > block_count - 1

read_block(d, block_count, blocknr, buflen) ==
    IF beyond_range(block_count, blocknr) THEN [ok |-> FALSE, data |-> <<>>]
    ELSE IF buflen < BLOCK_SIZE_BYTES THEN [ok |-> FALSE, data |-> <<>>]
    ELSE [ok |-> TRUE, data |-> d[blocknr]]

\* mutant: the bytes of the block after the buffer's are zeroed
write_block_zero_fill(d, block_count, blocknr, buf) ==
    IF beyond_range(block_count, blocknr) THEN [ok |-> FALSE, dev |-> d]
    ELSE [ok |-> TRUE,
          dev |-> [d EXCEPT ![blocknr] =
                      Trim(SubSeq(buf.data, 1, Min2(BLOCK_SIZE_BYTES, Len(buf.data))))]]

write_block(d, block_count, blocknr, buf) ==
    IF beyond_range(block_count, blocknr) THEN [ok |-> FALSE, dev |-> d]
    ELSE
        LET max == IF BLOCK_SIZE_BYTES < buf.len THEN BLOCK_SIZE_BYTES ELSE buf.len
            old  == d[blocknr]
            head == SubSeq(buf.data, 1, Min2(max, Len(buf.data)))
            pad  == [k \in 1..(max - Min2(max, Len(buf.data))) |-> 0]
            rest == SubSeq(old, max + 1, Len(old))
        IN  [ok |-> TRUE, dev |-> [d EXCEPT ![blocknr] = Trim(head \o pad \o rest)]]

(***************************************************************************)
(* The emulator on a host file.  The file is kept as its blocks and its    *)
(* length in bytes; the bytes past the length are zero in blocks.  A File  *)
(* handed to the builder is open for reading and writing with its cursor   *)
(* at 0 (tempfile(), reopen()).  checks tells whether the build has        *)
(* overflow checks and debug assertions (the dev profile) or not (the      *)
(* release profile).                                                       *)
(***************************************************************************)
Max2(a, b) == IF a < b THEN b ELSE a

FileBlocks == 0..MaxEmuBlocks

EmptyFile == [blocks |-> [b \in FileBlocks |-> <<>>], len |-> 0]

NoEmu == [kind |-> "none", block_count |-> 0, readable |-> FALSE, checks |-> FALSE,
          file |-> EmptyFile, calls |-> 0, handles |-> 0]

\* open_disk: the file is opened with write(true) only, nblocks is taken as given
open_disk(e, nblocks, checks) ==
    [e EXCEPT !.kind = "opened", !.block_count = nblocks, !.readable = FALSE,
              !.checks = checks]

\* build: debug_assert!(block_count > 0), then zero_block: block_count * 4096
\* zero bytes are written from the start of the file, which is not truncated
builder_build(e, block_count, checks) ==
    IF checks /\ ~(block_count > 0) THEN [ok |-> FALSE, emu |-> e]
    ELSE [ok |-> TRUE,
          emu |-> [e EXCEPT !.kind = "built", !.block_count = block_count,
                            !.readable = TRUE, !.checks = checks,
                            !.file = [blocks |-> zero_block(e.file.blocks, block_count),
                                      len |-> Max2(e.file.len,
                                                   block_count * BLOCK_SIZE_BYTES)]]]

\* the builder with clear_medium(false): the file is attached as it is
builder_build_no_clear(e, block_count, checks) ==
    IF checks /\ ~(block_count > 0) THEN [ok |-> FALSE, emu |-> e]
    ELSE [ok |-> TRUE,
          emu |-> [e EXCEPT !.kind = "built", !.block_count = block_count,
                            !.readable = TRUE, !.checks = checks]]

\* read_block on a handle: the subtraction of the range check, the range and
\* buffer checks, the read on the file descriptor, debug_assert!(bytes_read
\* == BLOCK_SIZE_BYTES).  The buffer handed in holds zeros.
emu_read_block(e, blocknr, buflen) ==
    IF sub_overflows(e.block_count) /\ e.checks THEN [kind |-> "Panic", data |-> <<>>]
    ELSE
        LET r == read_block(e.file.blocks, e.block_count, blocknr, buflen)
            bytes_read == Max2(0, Min2(BLOCK_SIZE_BYTES,
                                       e.file.len - blocknr * BLOCK_SIZE_BYTES))
        IN  IF ~r.ok THEN [kind |-> "Err", data |-> <<>>]
            ELSE IF ~e.readable THEN [kind |-> "Err", data |-> <<>>]
            ELSE IF e.checks /\ bytes_read # BLOCK_SIZE_BYTES
                 THEN [kind |-> "Panic", data |-> <<>>]
            ELSE [kind |-> "Ok", data |-> r.data]

\* write_block on a handle: a write past the end of the file extends it
emu_write_block(e, blocknr, buf) ==
    IF sub_overflows(e.block_count) /\ e.checks THEN [kind |-> "Panic", file |-> e.file]
    ELSE
        LET w == write_block(e.file.blocks, e.block_count, blocknr, buf)
            max == Min2(BLOCK_SIZE_BYTES, buf.len)
        IN  IF ~w.ok THEN [kind |-> "Err", file |-> e.file]
            ELSE [kind |-> "Ok",
                  file |-> [blocks |-> w.dev,
                            len |-> IF max = 0 THEN e.file.len
                                    ELSE Max2(e.file.len, blocknr * BLOCK_SIZE_BYTES + max)]]

(***************************************************************************)
(* Bitmap (alloc.rs).                                                      *)
(***************************************************************************)
Bitmap_new == {}

Bitmap_get(bm, blocknr) == IF blocknr \in bm THEN "Used" ELSE "Free"

\* assert!(blocknr < (4096 * 8 - 1)) of get, set_reserved and set_free
Bitmap_in_range(blocknr) == blocknr < BITMAP_LIMIT

Bitmap_set_reserved(bm, blocknr) == bm \cup {blocknr}

\* mutant: set_free leaves the bitmap as it is
Bitmap_set_free_noop(bm, blocknr) == bm

\* mask = 0b00 << inner_offset is 0: the whole 64-bit word is cleared
Bitmap_set_free(bm, blocknr) ==
    bm \ {i \in bm : i \div 64 = blocknr \div 64}

\* mutant: the bits of a byte are laid out from the most significant one
BitmapByte_msb_first(bm, j) ==
    LET bit(b) == IF (8 * j + b) \in bm THEN 1 ELSE 0
    IN  bit(7) + 2 * bit(6) + 4 * bit(5) + 8 * bit(4)
            + 16 * bit(3) + 32 * bit(2) + 64 * bit(1) + 128 * bit(0)

BitmapByte(bm, j) ==
    LET bit(b) == IF (8 * j + b) \in bm THEN 1 ELSE 0
    IN  bit(0) + 2 * bit(1) + 4 * bit(2) + 8 * bit(3)
            + 16 * bit(4) + 32 * bit(5) + 64 * bit(6) + 128 * bit(7)

Bitmap_serialize(bm) ==
    IF bm = {} THEN MkBuf(BLOCK_SIZE, <<>>)
    ELSE MkBuf(BLOCK_SIZE, [j \in 1..(SetMax(bm) \div 8 + 1) |-> BitmapByte(bm, j - 1)])

ByteBit(v, b) ==
    LET p == IF b = 0 THEN 1 ELSE IF b = 1 THEN 2 ELSE IF b = 2 THEN 4
             ELSE IF b = 3 THEN 8 ELSE IF b = 4 THEN 16 ELSE IF b = 5 THEN 32
             ELSE IF b = 6 THEN 64 ELSE 128
    IN  (v \div p) % 2

Bitmap_parse(bytes) ==
    {8 * (j - 1) + b : <<j, b>> \in
        {jb \in (1..Len(bytes)) \X (0..7) : ByteBit(bytes[jb[1]], jb[2]) = 1}}

(***************************************************************************)
(* SuperBlock (sb.rs; SuperBlock::default in fs.rs).                       *)
(***************************************************************************)
SuperBlock_new ==
    [sb_magic |-> SB_MAGIC, inodes_count |-> 0, blocks_count |-> 0,
     reserved_blocks_count |-> 0, free_blocks_count |-> 0, free_inodes_count |-> 0]

SuperBlock_default ==
    [SuperBlock_new EXCEPT
        !.sb_magic = SB_MAGIC,
        !.inodes_count = INODE_BLOCKS * (BLOCK_SIZE \div NODE_SIZE),
        !.blocks_count = 56,
        !.reserved_blocks_count = 0,
        !.free_blocks_count = 0,
        !.free_inodes_count = INODE_BLOCKS * (BLOCK_SIZE \div NODE_SIZE)]

\* mutant: the fields are encoded little-endian
SuperBlock_serialize_le(sb) ==
    LET le(v) == <<LEByte(v, 0), LEByte(v, 1), LEByte(v, 2), LEByte(v, 3)>>
    IN  MkBuf(BLOCK_SIZE,
              le(sb.sb_magic) \o le(sb.inodes_count) \o le(sb.blocks_count)
                  \o le(sb.reserved_blocks_count) \o le(sb.free_blocks_count)
                  \o le(sb.free_inodes_count))

\* the six fields, big-endian, then zeros up to the block size
SuperBlock_serialize(sb) ==
    MkBuf(BLOCK_SIZE,
          BE32(sb.sb_magic) \o BE32(sb.inodes_count) \o BE32(sb.blocks_count)
              \o BE32(sb.reserved_blocks_count) \o BE32(sb.free_blocks_count)
              \o BE32(sb.free_inodes_count))

\* the magic read from the first four bytes of a block
StoredMagic(bytes) == BE32At(bytes, 0)

\* mutant: parse without the assertion on the magic
SuperBlock_parse_unchecked(buf, magic) ==
    IF buf.len # BLOCK_SIZE THEN [ok |-> FALSE, sb |-> SuperBlock_new]
    ELSE [ok |-> TRUE,
          sb |-> [sb_magic |-> magic,
                  inodes_count |-> BE32At(buf.data, 4),
                  blocks_count |-> BE32At(buf.data, 8),
                  reserved_blocks_count |-> BE32At(buf.data, 12),
                  free_blocks_count |-> BE32At(buf.data, 16),
                  free_inodes_count |-> BE32At(buf.data, 20)]]

\* parse asserts on the buffer length and on the magic: ok = FALSE is the panic
SuperBlock_parse(buf, magic) ==
    IF buf.len # BLOCK_SIZE THEN [ok |-> FALSE, sb |-> SuperBlock_new]
    ELSE IF StoredMagic(buf.data) # magic THEN [ok |-> FALSE, sb |-> SuperBlock_new]
    ELSE [ok |-> TRUE,
          sb |-> [sb_magic |-> magic,
                  inodes_count |-> BE32At(buf.data, 4),
                  blocks_count |-> BE32At(buf.data, 8),
                  reserved_blocks_count |-> BE32At(buf.data, 12),
                  free_blocks_count |-> BE32At(buf.data, 16),
                  free_inodes_count |-> BE32At(buf.data, 20)]]

(***************************************************************************)
(* Inode: a packed 256-byte record (node.rs).                              *)
(***************************************************************************)
ZeroWords(n) == [i \in 1..n |-> 0]

\* mutant: the root inode is made with the mode of a regular file
Inode_root_as_file ==
    [mode |-> DEFAULT_MODE, uid |-> 0, gid |-> 0, links_count |-> 0, size |-> 0,
     create_time |-> 0, update_time |-> 0, access_time |-> 0,
     padding |-> ZeroWords(NPADDING), blocks |-> ZeroWords(NBLOCKPTRS)]

Inode_root ==
    [mode |-> ROOT_DEFAULT_MODE, uid |-> 0, gid |-> 0, links_count |-> 0, size |-> 0,
     create_time |-> 0, update_time |-> 0, access_time |-> 0,
     padding |-> ZeroWords(NPADDING), blocks |-> ZeroWords(NBLOCKPTRS)]

Inode_default ==
    [mode |-> DEFAULT_MODE, uid |-> 0, gid |-> 0, links_count |-> 0, size |-> 0,
     create_time |-> 0, update_time |-> 0, access_time |-> 0,
     padding |-> ZeroWords(NPADDING), blocks |-> ZeroWords(NBLOCKPTRS)]

\* byte k (from 0) of node.as_bytes()
InodeByte(node, k) ==
    IF k < 2 THEN LEByte(node.mode, k)
    ELSE IF k < 4 THEN LEByte(node.uid, k - 2)
    ELSE IF k < 6 THEN LEByte(node.gid, k - 4)
    ELSE IF k < 8 THEN LEByte(node.links_count, k - 6)
    ELSE IF k < 12 THEN LEByte(node.size, k - 8)
    ELSE IF k < 16 THEN LEByte(node.create_time, k - 12)
    ELSE IF k < 20 THEN LEByte(node.update_time, k - 16)
    ELSE IF k < 24 THEN LEByte(node.access_time, k - 20)
    ELSE IF k < BLOCKS_OFFSET THEN LEByte(node.padding[(k - 24) \div 4 + 1], (k - 24) % 4)
    ELSE LEByte(node.blocks[(k - BLOCKS_OFFSET) \div 4 + 1], (k - BLOCKS_OFFSET) % 4)

Inode_as_bytes(node) == [k \in 1..NODE_SIZE |-> InodeByte(node, k - 1)]

\* Inode::parse of the 256 bytes that start at byte off of bytes
Inode_parse(bytes, off) ==
    [mode |-> U16At(bytes, off), uid |-> U16At(bytes, off + 2),
     gid |-> U16At(bytes, off + 4), links_count |-> U16At(bytes, off + 6),
     size |-> U32At(bytes, off + 8), create_time |-> U32At(bytes, off + 12),
     update_time |-> U32At(bytes, off + 16), access_time |-> U32At(bytes, off + 20),
     padding |-> [i \in 1..NPADDING |-> U32At(bytes, off + 24 + 4 * (i - 1))],
     blocks |-> [i \in 1..NBLOCKPTRS |-> U32At(bytes, off + BLOCKS_OFFSET + 4 * (i - 1))]]

(***************************************************************************)
(* NextAvailableAllocation with a cap (alloc.rs).  next yields -1 for None.*)
(***************************************************************************)
\* cap = -1 stands for None: cap.unwrap_or_else(|| BLOCK_SIZE / 8)
NextAvailableAllocation_new(bitmap, cap) ==
    [marker |-> 0, bitmap |-> bitmap, cap |-> IF cap = -1 THEN BLOCK_SIZE \div 8 ELSE cap]

\* mutant: next yields the marker itself, whatever the bitmap says
NextAvailableAllocation_next_any(marker, bitmap, cap) ==
    IF marker >= cap THEN [idx |-> -1, marker |-> marker]
    ELSE [idx |-> marker, marker |-> marker + 1]

\* mutant: the scan takes the cap itself as an index
NextAvailableAllocation_next_to_cap(marker, bitmap, cap) ==
    LET free == {i \in marker..cap : Bitmap_get(bitmap, i) = "Free"}
    IN  IF free = {} THEN [idx |-> -1, marker |-> marker]
        ELSE [idx |-> SetMin(free), marker |-> marker + 1]

NextAvailableAllocation_next(marker, bitmap, cap) ==
    LET free == {i \in marker..(cap - 1) : Bitmap_get(bitmap, i) = "Free"}
    IN  IF free = {} THEN [idx |-> -1, marker |-> marker]
        ELSE [idx |-> SetMin(free), marker |-> marker + 1]

(***************************************************************************)
(* InodeGroup: the inode map and its allocation bitmap.  The group SFS     *)
(* holds owns no storage (fs.rs: InodeGroup::new(Bitmap::new()),           *)
(* load_block(i, &block_buf)); SFS does the block I/O.                     *)
(***************************************************************************)
NoNodes == [i \in {} |-> Inode_root]

\* mutant: insert does not mark the inumber in the allocation bitmap
InodeGroup_insert_unmarked(g, node_block, node) ==
    [nodes |-> [i \in (DOMAIN g.nodes) \cup {node_block} |->
                    IF i = node_block THEN node ELSE g.nodes[i]],
     alloc_tracker |-> g.alloc_tracker]

InodeGroup_insert(g, node_block, node) ==
    [nodes |-> [i \in (DOMAIN g.nodes) \cup {node_block} |->
                    IF i = node_block THEN node ELSE g.nodes[i]],
     alloc_tracker |-> Bitmap_set_reserved(g.alloc_tracker, node_block)]

\* mutant: the group starts without the root inode
InodeGroup_new_no_root(alloc_tracker) == [nodes |-> NoNodes, alloc_tracker |-> alloc_tracker]

InodeGroup_new(alloc_tracker) ==
    InodeGroup_insert([nodes |-> NoNodes, alloc_tracker |-> alloc_tracker], 0, Inode_root)

InodeGroup_open(alloc_tracker) == [nodes |-> NoNodes, alloc_tracker |-> alloc_tracker]

total_nodes(g) == Cardinality(DOMAIN g.nodes)

allocations(g) == g.alloc_tracker

\* mutant: the scan of the block starts one inumber late
load_block_skips_first(g, disk_block, bytes) ==
    LET block_start == disk_block * NODES_PER_BLOCK
        block_end   == block_start + NODES_PER_BLOCK
        used        == {i \in (block_start + 1)..(block_end - 1) :
                            Bitmap_get(g.alloc_tracker, i) = "Used"}
        node_offset == block_start % NODE_SIZE
    IN  [g EXCEPT !.nodes = [i \in (DOMAIN g.nodes) \cup used |->
                                IF i \in used THEN Inode_parse(bytes, node_offset)
                                ELSE g.nodes[i]]]

\* every allocated inumber of the block is parsed at block_start % NODE_SIZE
load_block(g, disk_block, bytes) ==
    LET block_start == disk_block * NODES_PER_BLOCK
        block_end   == block_start + NODES_PER_BLOCK
        used        == {i \in block_start..(block_end - 1) :
                            Bitmap_get(g.alloc_tracker, i) = "Used"}
        node_offset == block_start % NODE_SIZE
    IN  [g EXCEPT !.nodes = [i \in (DOMAIN g.nodes) \cup used |->
                                IF i \in used THEN Inode_parse(bytes, node_offset)
                                ELSE g.nodes[i]]]

\* nodes.range(offset..NODES_PER_BLOCK) panics when offset > NODES_PER_BLOCK
serialize_block_panics(disk_block) == disk_block * NODES_PER_BLOCK > NODES_PER_BLOCK

serialize_block(g, disk_block) ==
    LET offset == disk_block * NODES_PER_BLOCK
        in     == {i \in DOMAIN g.nodes : offset <= i /\ i < NODES_PER_BLOCK}
    IN  IF in = {} THEN MkBuf(BLOCK_SIZE, <<>>)
        ELSE MkBuf(BLOCK_SIZE,
                   [k \in 1..(NODE_SIZE * (SetMax(in) + 1)) |->
                       IF ((k - 1) \div NODE_SIZE) \in in
                       THEN InodeByte(g.nodes[(k - 1) \div NODE_SIZE], (k - 1) % NODE_SIZE)
                       ELSE 0])

\* the lowest free inumber below the cap gets a default regular-file inode;
\* ok = FALSE is the abort when no inumber is free
new_file(g) ==
    LET r == NextAvailableAllocation_next(0, g.alloc_tracker, INODE_CAP)
    IN  IF r.idx = -1 THEN [ok |-> FALSE, inum |-> 0, group |-> g]
        ELSE [ok |-> TRUE, inum |-> r.idx,
              group |-> InodeGroup_insert(g, r.idx, Inode_default)]

(***************************************************************************)
(* Paths, open modes and directory payloads (fs.rs).                       *)
(***************************************************************************)
Modes == {"RO", "WO", "RW", "DIRECTORY", "CREATE"}

\* str::split: the pieces of s between the bytes c, empty pieces included
SplitOn(s, c) ==
    LET seps   == {i \in 1..Len(s) : s[i] = c}
        n      == Cardinality(seps)
        nth(k) == IF k = 0 THEN 0
                  ELSE IF k = n + 1 THEN Len(s) + 1
                  ELSE CHOOSE i \in seps : Cardinality({j \in seps : j < i}) = k - 1
    IN  [k \in 1..(n + 1) |-> SubSeq(s, nth(k - 1) + 1, nth(k) - 1)]

\* mutant: the empty pieces between separators are kept as components
Components_keep_empty(path) ==
    [root  |-> path # <<>> /\ path[1] = CH_SLASH,
     parts |-> SplitOn(path, CH_SLASH)]

\* mutant: every non-empty path counts as starting at the root
Components_any_root(path) ==
    [root  |-> path # <<>>,
     parts |-> SelectSeq(SplitOn(path, CH_SLASH), LAMBDA c : c # <<>>)]

\* Path::components: RootDir for a leading separator, then the non-empty
\* pieces between separators
Components(path) ==
    [root  |-> path # <<>> /\ path[1] = CH_SLASH,
     parts |-> SelectSeq(SplitOn(path, CH_SLASH), LAMBDA c : c # <<>>)]

RECURSIVE Digits(_)
\* the decimal text of n
Digits(n) == IF n < 10 THEN <<CH_DIGIT0 + n>> ELSE Digits(n \div 10) \o <<CH_DIGIT0 + (n % 10)>>

RECURSIVE ParseDigits(_, _)
ParseDigits(t, acc) ==
    IF t = <<>> THEN acc ELSE ParseDigits(Tail(t), 10 * acc + (Head(t) - CH_DIGIT0))

\* str::parse::<u32> succeeds on a non-empty run of digits below 2^32; the
\* model reads numbers of at most MAX_DIGITS digits, which all are
IsU32Text(t) ==
    /\ t # <<>>
    /\ Len(t) <= MAX_DIGITS
    /\ \A i \in 1..Len(t) : t[i] \in CH_DIGIT0..(CH_DIGIT0 + 9)

RECURSIVE ConcatLines(_, _)
\* format!("{}:{}\n", v, k) for the entries in the order the map iterates them
ConcatLines(entries, order) ==
    IF order = <<>> THEN <<>>
    ELSE (IF Head(order) \in DOMAIN entries
          THEN Digits(entries[Head(order)]) \o <<CH_COLON>> \o Head(order) \o <<CH_NEWLINE>>
          ELSE <<>>) \o ConcatLines(entries, Tail(order))

\* the payload of a directory: its lines and a final NUL
DirContents(entries, order) == ConcatLines(entries, order) \o <<0>>

\* str::lines: the pieces between newlines, without a final empty piece
Lines(text) ==
    LET p == SplitOn(text, CH_NEWLINE)
    IN  IF p[Len(p)] = <<>> THEN SubSeq(p, 1, Len(p) - 1) ELSE p

\* a line read_dir accepts: "<u32>:<name>"; any other line panics in unwrap
LineOk(line) ==
    LET f == SplitOn(line, CH_COLON)
    IN  IsU32Text(f[1]) /\ Len(f) >= 2

RECURSIVE InsertLines(_, _)
\* HashMap::insert of each line's (name, inum): the last occurrence wins
InsertLines(lines, acc) ==
    IF lines = <<>> THEN acc
    ELSE LET f    == SplitOn(Head(lines), CH_COLON)
             name == f[2]
             inum == ParseDigits(f[1], 0)
         IN  InsertLines(Tail(lines),
                         [n \in (DOMAIN acc) \cup {name} |->
                             IF n = name THEN inum ELSE acc[n]])

NoEntries == [n \in {} |-> 0]

(***************************************************************************)
(* NextAvailableAllocation of fs.rs: no cap, the scan ends at              *)
(* BLOCK_SIZE / 8.  next yields -1 for None.                               *)
(***************************************************************************)
fs_NextAvailableAllocation_next(marker, bitmap) ==
    LET free == {i \in marker..(ALLOC_SCAN_END - 1) : Bitmap_get(bitmap, i) = "Free"}
    IN  IF free = {} THEN [idx |-> -1, marker |-> marker]
        ELSE [idx |-> SetMin(free), marker |-> marker + 1]

RECURSIVE TakeBlocks(_, _, _)
\* (0..n).map(|_| alloc_gen.next()): the bitmap is the copy taken by new()
TakeBlocks(marker, bitmap, n) ==
    IF n = 0 THEN <<>>
    ELSE LET r == fs_NextAvailableAllocation_next(marker, bitmap)
         IN  <<r.idx>> \o TakeBlocks(r.marker, bitmap, n - 1)

SeqToSet(q) == {q[i] : i \in 1..Len(q)}

\* mutant: the new blocks are not marked in the data map
ReserveAll_skip(bitmap, blocks) == bitmap

RECURSIVE ReserveAll(_, _)
\* for &new_block in new_blocks.iter() { self.data_map.set_reserved(new_block) }
ReserveAll(bitmap, blocks) ==
    IF blocks = <<>> THEN bitmap
    ELSE ReserveAll(Bitmap_set_reserved(bitmap, Head(blocks)), Tail(blocks))

RECURSIVE WriteChunks(_, _, _, _, _)
\* chunks_mut(BLOCK_SIZE): chunk k goes to blocks[k]; ok = FALSE when a
\* write_block fails (the unwrap panics)
WriteChunks(d, block_count, blocks, contents, k) ==
    IF (k - 1) * BLOCK_SIZE >= Len(contents) THEN [ok |-> TRUE, dev |-> d]
    ELSE LET last  == Min2(k * BLOCK_SIZE, Len(contents))
             chunk == SubSeq(contents, (k - 1) * BLOCK_SIZE + 1, last)
             w     == write_block(d, block_count, blocks[k],
                                  MkBuf(Len(chunk), chunk))
         IN  IF ~w.ok THEN [ok |-> FALSE, dev |-> w.dev]
             ELSE WriteChunks(w.dev, block_count, blocks, contents, k + 1)

(***************************************************************************)
(* SFS: read_file, read_dir, write_dir.  fs is the record of the mounted   *)
(* handle's fields [super_block, data_map, inodes]; d is the container.    *)
(***************************************************************************)
OwnedForRead(fs, node) ==
    SelectSeq(node.blocks, LAMBDA b : b > fs.super_block.inodes_count + 3)

OwnedForWrite(node) == SelectSeq(node.blocks, LAMBDA b : b > FIRST_DATA_PTR)

\* content is vec![0; allocated_blocks.len()], at most 15 bytes: with a block
\* to read, the slice content[0..BLOCK_SIZE] is out of range and the call
\* panics before the block is read
read_file(fs, d, block_count, inum) ==
    IF inum \notin DOMAIN fs.inodes.nodes THEN [res |-> ErrRes("DoesNotExist"), content |-> <<>>]
    ELSE LET allocated_blocks == OwnedForRead(fs, fs.inodes.nodes[inum])
         IN  IF Len(allocated_blocks) = 0 THEN [res |-> OkRes(0), content |-> <<>>]
             ELSE [res |-> PanicRes("range end index out of range"), content |-> <<>>]

read_dir(fs, d, block_count, inum) ==
    LET f == read_file(fs, d, block_count, inum)
    IN  IF f.res.kind # "Ok" THEN [res |-> f.res, entries |-> NoEntries]
        ELSE IF \E i \in 1..Len(f.content) : f.content[i] > 127
        THEN [res |-> PanicRes("from_utf8"), entries |-> NoEntries]
        ELSE LET lines == Lines(f.content)
             IN  IF \E i \in 1..Len(lines) : ~LineOk(lines[i])
                 THEN [res |-> PanicRes("unwrap on a directory line"), entries |-> NoEntries]
                 ELSE [res |-> OkRes(0), entries |-> InsertLines(lines, NoEntries)]

write_dir(fs, d, block_count, dir, entries, order) ==
    LET contents == DirContents(entries, order)
        unchanged(res) == [res |-> res, fs |-> fs, dev |-> d]
    IN  IF dir \notin DOMAIN fs.inodes.nodes THEN unchanged(PanicRes("get_mut unwrap"))
        ELSE
        LET node             == fs.inodes.nodes[dir]
            allocated_blocks == OwnedForWrite(node)
            needed           == 1 + (Len(contents) \div BLOCK_SIZE)
            have             == Len(allocated_blocks)
        IN  IF have < needed
            THEN
                LET new_blocks == TakeBlocks(0, fs.data_map, needed - have)
                    all_blocks == allocated_blocks \o new_blocks
                    blocks15   == [i \in 1..NBLOCKPTRS |->
                                      IF i <= Len(all_blocks) THEN all_blocks[i] ELSE 0]
                    fs2 == [fs EXCEPT
                               !.data_map = ReserveAll(fs.data_map, new_blocks),
                               !.inodes.nodes[dir].blocks = blocks15]
                    w   == WriteChunks(d, block_count, all_blocks, contents, 1)
                IN  IF -1 \in SeqToSet(new_blocks)
                    THEN unchanged(PanicRes("no free block"))
                    ELSE IF Len(all_blocks) > NBLOCKPTRS
                    THEN [res |-> PanicRes("index out of bounds"),
                          fs |-> [fs EXCEPT !.data_map = ReserveAll(fs.data_map, new_blocks)],
                          dev |-> d]
                    ELSE IF ~w.ok THEN [res |-> PanicRes("write_block unwrap"), fs |-> fs2, dev |-> w.dev]
                    ELSE [res |-> OkRes(0), fs |-> fs2, dev |-> w.dev]
            ELSE
                LET w == WriteChunks(d, block_count, allocated_blocks, contents, 1)
                IN  IF ~w.ok THEN [res |-> PanicRes("write_block unwrap"), fs |-> fs, dev |-> w.dev]
                    ELSE [res |-> OkRes(0), fs |-> fs, dev |-> w.dev]

(***************************************************************************)
(* SFS::create, SFS::open, SFS::open_file.                                 *)
(***************************************************************************)
NoFs ==
    [super_block |-> SuperBlock_new, data_map |-> Bitmap_new,
     inodes |-> InodeGroup_open(Bitmap_new)]

SFS_create(d, block_count) ==
    LET super_block == SuperBlock_default
        sb_bytes    == SuperBlock_serialize(super_block).data
        buf0   == MkBuf(BLOCK_SIZE, [k \in 1..SB_HEADER_LEN |-> ByteAt(sb_bytes, k - 1)])
        w0     == write_block(d, block_count, SUPERBLOCK_INDEX, buf0)
        data_map == Bitmap_new
        w1     == write_block(w0.dev, block_count, DATA_REGION_BMP, Bitmap_serialize(data_map))
        inodes == InodeGroup_new(Bitmap_new)
        w2     == write_block(w1.dev, block_count, INODE_BMP,
                              Bitmap_serialize(allocations(inodes)))
        w3     == write_block(w2.dev, block_count, INODE_START, serialize_block(inodes, 0))
        fail(dv) == [res |-> ErrRes("InvalidBlock"), dev |-> dv, fs |-> NoFs]
    IN  IF ~w0.ok THEN fail(w0.dev)
        ELSE IF ~w1.ok THEN fail(w1.dev)
        ELSE IF ~w2.ok THEN fail(w2.dev)
        ELSE IF serialize_block_panics(0) THEN [res |-> PanicRes("range"), dev |-> w2.dev, fs |-> NoFs]
        ELSE IF ~w3.ok THEN fail(w3.dev)
        ELSE [res |-> OkRes(0), dev |-> w3.dev,
              fs |-> [super_block |-> super_block, data_map |-> data_map, inodes |-> inodes]]

RECURSIVE LoadBlocks(_, _, _, _)
\* for i in INODE_START..INODE_START + 5: read block i, load_block(i - INODE_START)
LoadBlocks(g, d, block_count, i) ==
    IF i >= INODE_START + INODE_BLOCKS THEN [ok |-> TRUE, group |-> g]
    ELSE LET r == read_block(d, block_count, i, BLOCK_SIZE)
         IN  IF ~r.ok THEN [ok |-> FALSE, group |-> g]
             ELSE LoadBlocks(load_block(g, i - INODE_START, r.data), d, block_count, i + 1)

SFS_open(d, block_count) ==
    LET r0 == read_block(d, block_count, SUPERBLOCK_INDEX, BLOCK_SIZE)
        p  == SuperBlock_parse(MkBuf(BLOCK_SIZE, r0.data), SB_MAGIC)
        r1 == read_block(d, block_count, DATA_REGION_BMP, BLOCK_SIZE)
        r2 == read_block(d, block_count, INODE_BMP, BLOCK_SIZE)
        l  == LoadBlocks(InodeGroup_open(Bitmap_parse(r2.data)), d, block_count, INODE_START)
        fail == [res |-> ErrRes("InvalidBlock"), fs |-> NoFs]
    IN  IF ~r0.ok THEN fail
        ELSE IF ~p.ok THEN [res |-> PanicRes("Superblock magic constant invalid."), fs |-> NoFs]
        ELSE IF ~r1.ok THEN fail
        ELSE IF ~r2.ok THEN fail
        ELSE IF ~l.ok THEN fail
        ELSE [res |-> OkRes(0),
              fs |-> [super_block |-> p.sb, data_map |-> Bitmap_parse(r1.data),
                      inodes |-> l.group]]

\* mutant: RW creates a missing component too
mode_creates_rw(mode) == mode \in {"CREATE", "RW"}

\* match mode: OpenMode::CREATE is the one arm that creates
mode_creates(mode) == mode = "CREATE"

\* mutant: the inode is allocated before the mode is looked at
open_file_alloc_first(fs, d, block_count, path, mode, order) ==
    LET parts == Components(path)
        out(res, reads, fs2, d2, made) ==
            [res |-> res, reads |-> reads, fs |-> fs2, dev |-> d2, made |-> made]
    IN  IF ~parts.root THEN out(ErrRes("InvalidArgument"), 0, fs, d, <<>>)
        ELSE IF parts.parts = <<>> THEN out(OkRes(0), 0, fs, d, <<>>)
        ELSE
        LET part == parts.parts[1]
            rd   == read_dir(fs, d, block_count, 0)
        IN  IF rd.res.kind # "Ok" THEN out(rd.res, 1, fs, d, <<>>)
            ELSE IF part \notin DOMAIN rd.entries
            THEN
                LET nf      == new_file(fs.inodes)
                    content == [n \in (DOMAIN rd.entries) \cup {part} |->
                                   IF n = part THEN nf.inum ELSE rd.entries[n]]
                    wd      == write_dir([fs EXCEPT !.inodes = nf.group], d, block_count,
                                         0, content, order)
                IN  IF ~nf.ok THEN out(PanicRes("no free inode"), 1, fs, d, <<>>)
                    ELSE IF ~mode_creates(mode)
                    THEN out(ErrRes("DoesNotExist"), 1, [fs EXCEPT !.inodes = nf.group], d, <<>>)
                    ELSE IF wd.res.kind # "Ok" THEN out(wd.res, 1, wd.fs, wd.dev, <<>>)
                    ELSE out(OkRes(nf.inum), 1, wd.fs, wd.dev, <<part>>)
            ELSE out(PanicRes("not implemented"), 1, fs, d, <<>>)

\* reads: the read_dir calls made; made: the name an inode was allocated for
open_file(fs, d, block_count, path, mode, order) ==
    LET parts == Components(path)
        out(res, reads, fs2, d2, made) ==
            [res |-> res, reads |-> reads, fs |-> fs2, dev |-> d2, made |-> made]
    IN  IF ~parts.root THEN out(ErrRes("InvalidArgument"), 0, fs, d, <<>>)
        ELSE IF parts.parts = <<>> THEN out(OkRes(0), 0, fs, d, <<>>)    \* inum = 0
        ELSE
        LET part == parts.parts[1]
            rd   == read_dir(fs, d, block_count, 0)
        IN  IF rd.res.kind # "Ok" THEN out(rd.res, 1, fs, d, <<>>)
            ELSE IF part \notin DOMAIN rd.entries
            THEN
                IF mode_creates(mode)
                THEN
                    LET nf      == new_file(fs.inodes)
                        content == [n \in (DOMAIN rd.entries) \cup {part} |->
                                       IF n = part THEN nf.inum ELSE rd.entries[n]]
                        wd      == write_dir([fs EXCEPT !.inodes = nf.group], d, block_count,
                                             0, content, order)
                    IN  IF ~nf.ok THEN out(PanicRes("no free inode"), 1, fs, d, <<>>)
                        ELSE IF wd.res.kind # "Ok" THEN out(wd.res, 1, wd.fs, wd.dev, <<>>)
                        ELSE out(OkRes(nf.inum), 1, wd.fs, wd.dev, <<part>>)
                ELSE out(ErrRes("DoesNotExist"), 1, fs, d, <<>>)
            ELSE out(PanicRes("not implemented"), 1, fs, d, <<>>)    \* unimplemented!()

(***************************************************************************)
(* The state machine: one container, at most one handle on it.             *)
(***************************************************************************)
VARIABLES
    dev,          \* the container: block number -> bytes
    handle,       \* "none", "dev" (a block device was built), "fs" (mounted)
    dev_block_count, \* FileBlockEmulator.block_count of the handle's device
    origin,       \* how the handle was mounted: "none", "create", "open"
    super_block,  \* SFS.super_block
    data_map,     \* SFS.data_map
    inodes,       \* SFS.inodes: [nodes, alloc_tracker]
    calls,        \* open_file calls served by the handle
    created,      \* <<name, inumber>> of every inode open_file allocated since the format
    last,         \* the last operation, its arguments and its result
    bmp,          \* a Bitmap used on its own (alloc.rs)
    bmp_last,     \* the last operation on bmp, its index and the bitmap before it
    alloc,        \* a NextAvailableAllocation: marker, bitmap, cap, and what it yielded
    emu,          \* a host file and the FileBlockEmulator attached to it (emulator.rs)
    emu_last,     \* the last emulator call, its arguments, its result, the file before it
    codec,        \* a SuperBlock, its serialization and what parse made of it (sb.rs)
    grp,          \* an InodeGroup used on its own (node.rs)
    grp_last      \* the last operation on grp, its result, the group before it

fsvars == <<dev, handle, dev_block_count, origin, super_block, data_map, inodes, calls,
           created, last>>
bitvars == <<bmp, bmp_last, alloc>>
emuvars == <<emu, emu_last>>
grpvars == <<grp, grp_last>>
\* what the file system's operations leave alone
libvars == <<bitvars, emuvars, codec, grpvars>>
\* what the operations on a Bitmap leave alone
notbitvars == <<fsvars, emuvars, codec, grpvars>>
\* what the operations on an emulator leave alone
notemuvars == <<fsvars, bitvars, codec, grpvars>>
\* what the operations on a SuperBlock leave alone
notcodecvars == <<fsvars, bitvars, emuvars, grpvars>>
\* what the operations on an InodeGroup leave alone
notgrpvars == <<fsvars, bitvars, emuvars, codec>>
vars == <<dev, handle, dev_block_count, origin, super_block, data_map, inodes, calls,
          created, last,
          bmp, bmp_last, alloc, emu, emu_last, codec, grp, grp_last>>

PathRoot == <<47>>
PathA == <<47, 97>>
PathB == <<47, 98>>
PathAB == <<47, 97, 47, 98>>
PathRel == <<97>>
\* a name long enough for "<inum>:<name>\n" and the final NUL to fill a block
NameLong == [i \in 1..(BLOCK_SIZE - 4) |-> 99]
PathLong == <<CH_SLASH>> \o NameLong
Paths == {PathRoot, PathA, PathB, PathAB, PathRel}
\* the paths of the runs in which a directory payload fills a block
LongPaths == {PathA, PathLong}
NameA == <<97>>
NameB == <<98>>

\* the orders in which a HashMap holding the names S may iterate over them
Orders(S) == {o \in [1..Cardinality(S) -> S] : \A n \in S : \E i \in DOMAIN o : o[i] = n}

Fs == [super_block |-> super_block, data_map |-> data_map, inodes |-> inodes]

Op(op, path, mode, res, reads) ==
    [op |-> op, path |-> path, mode |-> mode, res |-> res, reads |-> reads]

SetFs(fs) ==
    /\ super_block' = fs.super_block
    /\ data_map' = fs.data_map
    /\ inodes' = fs.inodes

\* no operation on bmp yet
NoBitmapOp == [op |-> "none", idx |-> 0, before |-> Bitmap_new, res |-> "None"]

\* no NextAvailableAllocation exists
NoAlloc ==
    [kind |-> "none", marker |-> 0, bitmap |-> Bitmap_new, cap |-> 0,
     yielded |-> <<>>, done |-> FALSE, given |-> Bitmap_new]

\* no emulator call yet
NoEmuOp == [op |-> "none", blocknr |-> 0, buf |-> MkBuf(0, <<>>), res |-> "None",
            data |-> <<>>, before |-> NoEmu]

\* no SuperBlock was serialized yet
NoCodec ==
    [stage |-> "none", s |-> SuperBlock_new, buf |-> MkBuf(0, <<>>), magic |-> 0,
     ok |-> FALSE, sb |-> SuperBlock_new]

\* no InodeGroup exists
NoGroup == [made |-> FALSE, g |-> InodeGroup_open(Bitmap_new), files |-> 0]

\* no operation on grp yet
NoGroupOp == [op |-> "none", res |-> "None", inum |-> 0, before |-> NoGroup.g]

Init ==
    /\ dev = ZeroDev
    /\ handle = "none"
    /\ dev_block_count = 0
    /\ origin = "none"
    /\ super_block = NoFs.super_block
    /\ data_map = NoFs.data_map
    /\ inodes = NoFs.inodes
    /\ calls = 0
    /\ created = {}
    /\ last = Op("none", <<>>, "", NoRes, 0)
    /\ bmp = Bitmap_new
    /\ bmp_last = NoBitmapOp
    /\ alloc = NoAlloc
    /\ emu = NoEmu
    /\ emu_last = NoEmuOp
    /\ codec = NoCodec
    /\ grp = NoGroup
    /\ grp_last = NoGroupOp

\* the names of the map open_file hands to write_dir for this path: the
\* entries read from the root directory and the path's first component
EntryNames(path) ==
    LET parts == Components(path).parts
        rd    == read_dir(Fs, dev, dev_block_count, 0)
    IN  (IF rd.res.kind = "Ok" THEN DOMAIN rd.entries ELSE {})
            \cup (IF parts = <<>> THEN {} ELSE {parts[1]})

\* FileBlockEmulatorBuilder::build with a block count drawn from counts: the
\* medium is zeroed
BuildIn(counts) ==
    /\ handle = "none"
    /\ \E n \in counts :
        /\ dev' = zero_block(dev, n)
        /\ dev_block_count' = n
    /\ handle' = "dev"
    /\ created' = {}
    /\ last' = Op("build", <<>>, "", OkRes(0), 0)
    /\ UNCHANGED <<origin, super_block, data_map, inodes, calls>>
    /\ UNCHANGED libvars

Build == BuildIn({DeviceBlocks})

\* the builder with clear_medium(false): the container is attached as it is
BuildNoClearIn(counts) ==
    /\ handle = "none"
    /\ handle' = "dev"
    /\ \E n \in counts : dev_block_count' = n
    /\ last' = Op("build_no_clear", <<>>, "", OkRes(0), 0)
    /\ UNCHANGED <<dev, origin, super_block, data_map, inodes, calls, created>>
    /\ UNCHANGED libvars

BuildNoClear == BuildNoClearIn({DeviceBlocks})

Create ==
    /\ handle = "dev"
    /\ LET r == SFS_create(dev, dev_block_count)
       IN  /\ dev' = r.dev
           /\ SetFs(r.fs)
           /\ handle' = IF r.res.kind = "Ok" THEN "fs" ELSE "none"
           /\ dev_block_count' = IF r.res.kind = "Ok" THEN dev_block_count ELSE 0
           /\ origin' = IF r.res.kind = "Ok" THEN "create" ELSE "none"
           /\ last' = Op("create", <<>>, "", r.res, 0)
    /\ calls' = 0
    /\ created' = {}
    /\ UNCHANGED libvars

Open ==
    /\ handle = "dev"
    /\ LET r == SFS_open(dev, dev_block_count)
       IN  /\ SetFs(r.fs)
           /\ handle' = IF r.res.kind = "Ok" THEN "fs" ELSE "none"
           /\ dev_block_count' = IF r.res.kind = "Ok" THEN dev_block_count ELSE 0
           /\ origin' = IF r.res.kind = "Ok" THEN "open" ELSE "none"
           /\ last' = Op("open", <<>>, "", r.res, 0)
    /\ calls' = 0
    /\ UNCHANGED <<dev, created>>
    /\ UNCHANGED libvars

\* one open_file call on the mounted handle, its path drawn from paths; a
\* panic ends the process: the handle is lost, the container stays
OpenFileIn(paths, max) ==
    /\ handle = "fs"
    /\ calls < max
    /\ UNCHANGED libvars
    /\ \E path \in paths, mode \in Modes : \E order \in Orders(EntryNames(path)) :
        LET r == open_file(Fs, dev, dev_block_count, path, mode, order)
        IN  /\ dev' = r.dev
            /\ last' = Op("open_file", path, mode, r.res, r.reads)
            /\ created' = IF r.made = <<>> THEN created
                          ELSE created \cup {<<r.made[1], r.res.val>>}
            /\ IF r.res.kind = "Panic"
               THEN /\ SetFs(NoFs)
                    /\ handle' = "none"
                    /\ dev_block_count' = 0
                    /\ origin' = "none"
                    /\ calls' = 0
               ELSE /\ SetFs(r.fs)
                    /\ calls' = calls + 1
                    /\ UNCHANGED <<handle, dev_block_count, origin>>

OpenFile == OpenFileIn(Paths, MaxCalls)

OpenFileLong == OpenFileIn(LongPaths, MaxLongCalls)

\* the handle is dropped; the container stays
Drop ==
    /\ handle \in {"dev", "fs"}
    /\ handle' = "none"
    /\ dev_block_count' = 0
    /\ origin' = "none"
    /\ SetFs(NoFs)
    /\ calls' = 0
    /\ last' = Op("drop", <<>>, "", OkRes(0), 0)
    /\ UNCHANGED <<dev, created>>
    /\ UNCHANGED libvars

Next ==
    \/ Build
    \/ BuildNoClear
    \/ Create
    \/ Open
    \/ OpenFile
    \/ Drop

Spec == Init /\ [][Next]_vars

\* the same machine over LongPaths
LongNext ==
    \/ Build
    \/ BuildNoClear
    \/ Create
    \/ Open
    \/ OpenFileLong
    \/ Drop

LongSpec == Init /\ [][LongNext]_vars

(***************************************************************************)
(* The same machine on devices built with fewer blocks than the layout     *)
(* takes: read_block and write_block fail on the blocks past the count.    *)
(***************************************************************************)
\* with_block_size(n): too few blocks for create, for open, for the data region
FaultCounts == {2, 4, 8}

FaultPaths == {PathA}

FaultBuild == BuildIn(FaultCounts)

FaultBuildNoClear == BuildNoClearIn(FaultCounts)

OpenFileFault == OpenFileIn(FaultPaths, MaxFaultCalls)

FaultNext ==
    \/ FaultBuild
    \/ FaultBuildNoClear
    \/ Create
    \/ Open
    \/ OpenFileFault
    \/ Drop

FaultSpec == Init /\ [][FaultNext]_vars

(***************************************************************************)
(* The Bitmap and the allocation iterator used on their own: a caller owns *)
(* a Bitmap, sets and clears bits, serializes and parses it, and makes     *)
(* NextAvailableAllocation instances over a copy of it.                    *)
(***************************************************************************)
\* the indices the caller uses: both ends of the first word, the next word,
\* the last index the assertion admits and the first it rejects
BitIndices == {0, 1, 2, 64, BITMAP_LIMIT - 1, BITMAP_LIMIT}

\* caps given to NextAvailableAllocation::new; -1 is None
Caps == {3, -1}

BitmapOp(op, idx, before, res) == [op |-> op, idx |-> idx, before |-> before, res |-> res]

SetReserved ==
    /\ alloc.kind = "none"
    /\ \E i \in BitIndices :
        IF Bitmap_in_range(i)
        THEN /\ bmp' = Bitmap_set_reserved(bmp, i)
             /\ bmp_last' = BitmapOp("set_reserved", i, bmp, "Ok")
        ELSE /\ bmp' = bmp
             /\ bmp_last' = BitmapOp("set_reserved", i, bmp, "Panic")
    /\ UNCHANGED alloc
    /\ UNCHANGED notbitvars

SetFree ==
    /\ alloc.kind = "none"
    /\ \E i \in BitIndices :
        IF Bitmap_in_range(i)
        THEN /\ bmp' = Bitmap_set_free(bmp, i)
             /\ bmp_last' = BitmapOp("set_free", i, bmp, "Ok")
        ELSE /\ bmp' = bmp
             /\ bmp_last' = BitmapOp("set_free", i, bmp, "Panic")
    /\ UNCHANGED alloc
    /\ UNCHANGED notbitvars

Get ==
    /\ alloc.kind = "none"
    /\ \E i \in BitIndices :
        bmp_last' = BitmapOp("get", i, bmp,
                             IF Bitmap_in_range(i) THEN Bitmap_get(bmp, i) ELSE "Panic")
    /\ UNCHANGED <<bmp, alloc>>
    /\ UNCHANGED notbitvars

\* Bitmap::parse(bmp.serialize())
Roundtrip ==
    /\ alloc.kind = "none"
    /\ bmp' = Bitmap_parse(Bitmap_serialize(bmp).data)
    /\ bmp_last' = BitmapOp("roundtrip", 0, bmp, "Ok")
    /\ UNCHANGED alloc
    /\ UNCHANGED notbitvars

\* NextAvailableAllocation::new of alloc.rs (kind "alloc") or of fs.rs (kind
\* "fs", no cap): the iterator takes a copy of the caller's bitmap
AllocNew ==
    /\ alloc.kind = "none"
    /\ \E kind \in {"alloc", "fs"} : \E cap \in (IF kind = "alloc" THEN Caps ELSE {-1}) :
        LET a == NextAvailableAllocation_new(bmp, cap)
        IN  alloc' = [kind |-> kind, marker |-> a.marker, bitmap |-> a.bitmap,
                      cap |-> a.cap, yielded |-> <<>>, done |-> FALSE, given |-> bmp]
    /\ bmp_last' = NoBitmapOp
    /\ UNCHANGED bmp
    /\ UNCHANGED notbitvars

AllocNext ==
    /\ alloc.kind # "none"
    /\ ~alloc.done
    /\ Len(alloc.yielded) < MaxNext
    /\ LET r == IF alloc.kind = "alloc"
                THEN NextAvailableAllocation_next(alloc.marker, alloc.bitmap, alloc.cap)
                ELSE fs_NextAvailableAllocation_next(alloc.marker, alloc.bitmap)
       IN  alloc' = [alloc EXCEPT !.marker = r.marker,
                                  !.yielded = IF r.idx = -1 THEN @ ELSE Append(@, r.idx),
                                  !.done = (r.idx = -1)]
    /\ UNCHANGED <<bmp, bmp_last>>
    /\ UNCHANGED notbitvars

\* the caller marks the index it was given in its own bitmap
AllocReserveYielded ==
    /\ alloc.kind # "none"
    /\ alloc.yielded # <<>>
    /\ alloc.yielded[Len(alloc.yielded)] \in BitIndices
    /\ bmp' = Bitmap_set_reserved(bmp, alloc.yielded[Len(alloc.yielded)])
    /\ UNCHANGED <<bmp_last, alloc>>
    /\ UNCHANGED notbitvars

AllocDrop ==
    /\ alloc.kind # "none"
    /\ alloc' = NoAlloc
    /\ UNCHANGED <<bmp, bmp_last>>
    /\ UNCHANGED notbitvars

BitmapNext ==
    \/ SetReserved
    \/ SetFree
    \/ Get
    \/ Roundtrip
    \/ AllocNew
    \/ AllocNext
    \/ AllocReserveYielded
    \/ AllocDrop

BitmapSpec == Init /\ [][BitmapNext]_vars

(***************************************************************************)
(* Vocabulary of the properties.                                           *)
(***************************************************************************)
\* the container as create leaves a cleared 64-block container
FreshImage == SFS_create(ZeroDev, DeviceBlocks).dev

IsOpenFileStep == handle = "fs" /\ last'.op = "open_file"

Rooted(path) == path # <<>> /\ path[1] = CH_SLASH

\* the names between the separators of the model's paths
PartsOf(path) ==
    IF path = PathRoot THEN <<>>
    ELSE IF path = PathA THEN <<NameA>>
    ELSE IF path = PathB THEN <<NameB>>
    ELSE IF path = PathAB THEN <<NameA, NameB>>
    ELSE IF path = PathLong THEN <<NameLong>>
    ELSE <<NameA>>

CreatedNames == {e[1] : e \in created}

NodeBlocks(fs, i) == SeqToSet(fs.inodes.nodes[i].blocks) \ {0}

IN1(fs) ==
    \A i \in DOMAIN fs.inodes.nodes : NodeBlocks(fs, i) \subseteq FIRST_DATA_PTR..(DeviceBlocks - 1)

IN2(fs) ==
    /\ \A i, j \in DOMAIN fs.inodes.nodes : i # j => NodeBlocks(fs, i) \cap NodeBlocks(fs, j) = {}
    /\ \A i \in DOMAIN fs.inodes.nodes : \A k, l \in 1..NBLOCKPTRS :
          (k # l /\ fs.inodes.nodes[i].blocks[k] # 0)
              => fs.inodes.nodes[i].blocks[k] # fs.inodes.nodes[i].blocks[l]

IN3(fs) == \A i \in DOMAIN fs.inodes.nodes : NodeBlocks(fs, i) \subseteq fs.data_map

BM1(fs) == 0 \in fs.inodes.alloc_tracker

BM2(fs) ==
    /\ fs.inodes.alloc_tracker \subseteq DOMAIN fs.inodes.nodes
    /\ \A b \in fs.data_map : \E i \in DOMAIN fs.inodes.nodes : b \in NodeBlocks(fs, i)

\* the 256 bytes of slot (n mod 16) of a block
SlotBytes(bytes, n) ==
    [k \in 1..NODE_SIZE |-> ByteAt(bytes, (n % NODES_PER_BLOCK) * NODE_SIZE + k - 1)]

(***************************************************************************)
(* C1  Mount round-trip: open on the container that create left from a     *)
(* cleared 64-block container succeeds, and the mounted inode group holds  *)
(* exactly one inode, the root directory inode, at inumber 0.              *)
(***************************************************************************)
C1_MountRoundTrip ==
    (last.op = "open" /\ dev = FreshImage)
        => /\ last.res.kind = "Ok"
           /\ handle = "fs"
           /\ total_nodes(inodes) = 1
           /\ 0 \in DOMAIN inodes.nodes
           /\ inodes.nodes[0] = Inode_root

C1_Witness ==
    /\ last.op = "open"
    /\ dev = FreshImage
    /\ handle = "fs"
    /\ origin = "open"
    /\ total_nodes(inodes) = 1

C3_CreateThenOpenReturnsOne ==
    [][/\ (IsOpenFileStep /\ origin = "create" /\ calls = 0
              /\ last'.path = PathA /\ last'.mode = "CREATE")
          => last'.res = OkRes(1)
       /\ (IsOpenFileStep /\ origin = "create" /\ calls = 1
              /\ last = Op("open_file", PathA, "CREATE", OkRes(1), 1)
              /\ last'.path = PathA /\ last'.mode = "RO")
          => last'.res = OkRes(1)]_vars

(***************************************************************************)
(* C4  Creation is idempotent within a session: of two consecutive         *)
(* open_file(p, CREATE) calls on one handle, p a single-component path,    *)
(* the second succeeds with the inumber the first returned.                *)
(***************************************************************************)
C4_CreateIdempotent ==
    [][(/\ IsOpenFileStep
        /\ last.op = "open_file" /\ last.mode = "CREATE" /\ last.res.kind = "Ok"
        /\ Len(PartsOf(last.path)) = 1 /\ Rooted(last.path)
        /\ last'.path = last.path /\ last'.mode = "CREATE")
       => last'.res = last.res]_vars

(***************************************************************************)
(* C5  On any mounted handle and in every mode, open_file("/") returns     *)
(* inumber 0, reads no directory and changes neither the handle's state    *)
(* nor the container.                                                      *)
(***************************************************************************)
C5_RootReturnsZero ==
    [][(IsOpenFileStep /\ last'.path = PathRoot)
       => /\ last'.res = OkRes(0)
          /\ last'.reads = 0
          /\ UNCHANGED <<dev, handle, super_block, data_map, inodes, created>>]_vars

C5_Witness ==
    /\ last.op = "open_file"
    /\ last.path = PathRoot
    /\ last.mode = "CREATE"
    /\ last.res = OkRes(0)
    /\ created # {}

(***************************************************************************)
(* C6  In the modes RO, WO, RW and DIRECTORY open_file of a rooted path    *)
(* whose last component was never created fails with DoesNotExist and      *)
(* creates nothing; an inode is allocated by open_file only in mode        *)
(* CREATE, and it is a regular file (mode 0x2000).                         *)
(***************************************************************************)
C6_MustExistUnlessCreate ==
    [][IsOpenFileStep =>
        /\ (/\ last'.mode # "CREATE"
            /\ Rooted(last'.path)
            /\ PartsOf(last'.path) # <<>>
            /\ PartsOf(last'.path)[Len(PartsOf(last'.path))] \notin CreatedNames)
           => /\ last'.res = ErrRes("DoesNotExist")
              /\ UNCHANGED <<dev, handle, super_block, data_map, inodes, created>>
        /\ (last'.mode # "CREATE") => UNCHANGED <<inodes, created, dev>>
        /\ \A n \in (DOMAIN inodes'.nodes) \ (DOMAIN inodes.nodes) :
              /\ last'.mode = "CREATE"
              /\ inodes'.nodes[n].mode = DEFAULT_MODE]_vars

C6_Witness ==
    /\ last.op = "open_file"
    /\ last.path = PathB
    /\ last.mode = "DIRECTORY"
    /\ last.res = ErrRes("DoesNotExist")
    /\ \E n \in DOMAIN inodes.nodes : inodes.nodes[n].mode = DEFAULT_MODE

(***************************************************************************)
(* C7  open_file(path, CREATE) with a missing intermediate component (the  *)
(* first of two components was never created) fails with DoesNotExist,     *)
(* allocates no inode and adds no directory entry.                         *)
(***************************************************************************)
C7_NoCreateForIntermediate ==
    [][(/\ IsOpenFileStep
        /\ last'.mode = "CREATE"
        /\ last'.path = PathAB
        /\ NameA \notin CreatedNames)
       => /\ last'.res = ErrRes("DoesNotExist")
          /\ UNCHANGED <<inodes, data_map, dev, created>>]_vars

(***************************************************************************)
(* C8  open_file of a path that does not begin with the root separator     *)
(* fails with InvalidArgument in every mode, CREATE included, and changes  *)
(* nothing.                                                                *)
(***************************************************************************)
C8_RelativePathInvalid ==
    [][(IsOpenFileStep /\ ~Rooted(last'.path))
       => /\ last'.res = ErrRes("InvalidArgument")
          /\ UNCHANGED <<dev, handle, super_block, data_map, inodes, created>>]_vars

C8_Witness ==
    /\ last.op = "open_file"
    /\ last.path = PathRel
    /\ last.mode = "CREATE"
    /\ last.res = ErrRes("InvalidArgument")
    /\ handle = "fs"

(***************************************************************************)
(* C9  After a successful open_file(CREATE) the container is consistent:   *)
(* mounting it with open succeeds and the mounted inode group and bitmaps  *)
(* satisfy IN1, IN2, IN3, BM1 and BM2.                                     *)
(***************************************************************************)
C9_DurableConsistent ==
    (last.op = "open_file" /\ last.mode = "CREATE" /\ last.res.kind = "Ok")
        => LET m == SFS_open(dev, DeviceBlocks)
           IN  /\ m.res.kind = "Ok"
               /\ IN1(m.fs) /\ IN2(m.fs) /\ IN3(m.fs) /\ BM1(m.fs) /\ BM2(m.fs)

(***************************************************************************)
(* C10  When open_file(CREATE) allocated inumber n and returned it, the    *)
(* container holds the flushed metadata: bit n of block 2 is set and slot  *)
(* n mod 16 of block 3 + n / 16 holds the 256-byte record of inode n.      *)
(***************************************************************************)
C10_MetadataFlushed ==
    (/\ last.op = "open_file" /\ last.mode = "CREATE" /\ last.res.kind = "Ok"
     /\ last.res.val # 0)
        => LET n == last.res.val
           IN  /\ n \in Bitmap_parse(dev[INODE_BMP])
               /\ SlotBytes(dev[INODE_START + (n \div NODES_PER_BLOCK)], n)
                      = Inode_as_bytes(inodes.nodes[n])

\* a handle mounted by create and used by open_file calls only
FromCreate == handle = "fs" /\ origin = "create"

(***************************************************************************)
(* C11  IN1: on a handle reached from create by open_file calls, every     *)
(* entry of every inode's blocks array is 0 or a data-region index in      *)
(* 8..63, and no block that write_dir allocated (reserved in the data map) *)
(* is one of the metadata blocks 0..7.                                     *)
(***************************************************************************)
C11_PointersInDataRegion ==
    FromCreate =>
        /\ IN1(Fs)
        /\ data_map \cap (0..(FIRST_DATA_PTR - 1)) = {}

(***************************************************************************)
(* C12  IN2: on a handle reached from create by open_file calls, no data   *)
(* block index is held by two different inodes, nor twice by one inode,    *)
(* also when one write_dir allocates more than one block.                  *)
(***************************************************************************)
C12_NoSharedBlock == FromCreate => IN2(Fs)

(***************************************************************************)
(* C13  IN3: on a handle reached from create by open_file calls, every     *)
(* non-zero block pointer held by an inode is marked reserved in the       *)
(* in-memory data-region bitmap.                                           *)
(***************************************************************************)
C13_PointersReserved == FromCreate => IN3(Fs)

\* an inode holds a non-zero pointer, written by a write_dir that took two
\* blocks at once
C13_Witness ==
    /\ FromCreate
    /\ last.op = "open_file" /\ last.path = PathLong /\ last.res.kind = "Ok"
    /\ \E i \in DOMAIN inodes.nodes : NodeBlocks(Fs, i) # {}

(***************************************************************************)
(* C14  BM1 and the root's lifecycle: on every mounted handle, whether it  *)
(* comes from create or from a remount and whatever open_file calls it     *)
(* served, bit 0 of the inode allocation bitmap is set, inumber 0 is in    *)
(* the inode group with the directory mode 0x4000, and no inode that       *)
(* open_file allocated took inumber 0.                                     *)
(***************************************************************************)
C14_RootStays ==
    handle = "fs" =>
        /\ BM1(Fs)
        /\ 0 \in DOMAIN inodes.nodes
        /\ inodes.nodes[0].mode = ROOT_DEFAULT_MODE
        /\ \A e \in created : e[2] # 0

\* a remounted handle has just allocated an inode
C14_Witness ==
    /\ handle = "fs" /\ origin = "open"
    /\ last.op = "open_file" /\ last.mode = "CREATE" /\ last.res.kind = "Ok"
    /\ total_nodes(inodes) = 2

(***************************************************************************)
(* C15  BM2: on every mounted handle, every bit set in the inode           *)
(* allocation bitmap has an inode at that inumber in the inode group, and  *)
(* every bit set in the data-region bitmap is the index of a block held    *)
(* in some inode's blocks array (0 in the array is an empty slot).         *)
(***************************************************************************)
C15_BitsHaveRecords == handle = "fs" => BM2(Fs)

\* an operation on bmp that went through its assertion
BitmapOpDone(op) == bmp_last.op = op /\ bmp_last.res = "Ok"

\* the indices below cap that are Free in a bitmap
FreeBelow(bitmap, cap) == {i \in 0..(cap - 1) : Bitmap_get(bitmap, i) = "Free"}

(***************************************************************************)
(* C16  Bitmap set/get: for every index the assertion admits and every     *)
(* bitmap, get(i) is Used after set_reserved(i) and Free after             *)
(* set_free(i), and applying the operation a second time leaves the bitmap *)
(* as the first application left it.                                       *)
(***************************************************************************)
C16_SetThenGet ==
    /\ BitmapOpDone("set_reserved")
          => /\ Bitmap_get(bmp, bmp_last.idx) = "Used"
             /\ Bitmap_set_reserved(bmp, bmp_last.idx) = bmp
    /\ BitmapOpDone("set_free")
          => /\ Bitmap_get(bmp, bmp_last.idx) = "Free"
             /\ Bitmap_set_free(bmp, bmp_last.idx) = bmp

\* set_free acted on a bit that was reserved
C16_Witness ==
    /\ BitmapOpDone("set_free")
    /\ Bitmap_get(bmp_last.before, bmp_last.idx) = "Used"

(***************************************************************************)
(* C17  Bitmap frame condition: set_reserved(i) and set_free(i) leave      *)
(* get(j) as it was for every other admitted index j; set_free(i) leaves   *)
(* the other reserved bits of the same 64-bit word reserved.               *)
(***************************************************************************)
C17_OtherBitsKept ==
    (BitmapOpDone("set_reserved") \/ BitmapOpDone("set_free"))
        => \A j \in BitIndices \ {bmp_last.idx} :
              Bitmap_in_range(j) => Bitmap_get(bmp, j) = Bitmap_get(bmp_last.before, j)

(***************************************************************************)
(* C18  Bitmap round trip: for a bitmap b reached from Bitmap::new() by    *)
(* set_reserved and set_free, Bitmap::parse(b.serialize()) answers get(i)  *)
(* as b does, for every admitted index i.                                  *)
(***************************************************************************)
C18_BitmapRoundTrip ==
    BitmapOpDone("roundtrip")
        => \A i \in 0..(BITMAP_LIMIT - 1) : Bitmap_get(bmp, i) = Bitmap_get(bmp_last.before, i)

\* the bitmap that went through serialize and parse had bits in its first
\* word, in its second word and at the last admitted index
C18_Witness ==
    /\ BitmapOpDone("roundtrip")
    /\ {1, 64, BITMAP_LIMIT - 1} \subseteq bmp_last.before

(***************************************************************************)
(* C19  Allocator progress: a NextAvailableAllocation made over a bitmap   *)
(* with k free bits below cap has yielded at most k distinct indices;      *)
(* every index it yielded is below cap and Free in its bitmap; next()      *)
(* changes no bit of that bitmap.                                          *)
(***************************************************************************)
C19_AllocatorProgress ==
    alloc.kind # "none"
        => /\ Cardinality(SeqToSet(alloc.yielded))
                  <= Cardinality(FreeBelow(alloc.given, alloc.cap))
           /\ \A k \in 1..Len(alloc.yielded) :
                 /\ alloc.yielded[k] < alloc.cap
                 /\ Bitmap_get(alloc.bitmap, alloc.yielded[k]) = "Free"
           /\ alloc.bitmap = alloc.given

\* an iterator over a bitmap with reserved bits below its cap ran to None
C19_Witness ==
    /\ alloc.kind = "alloc"
    /\ alloc.done
    /\ alloc.yielded # <<>>
    /\ \E i \in alloc.given : i < alloc.cap

(***************************************************************************)
(* C20  One NextAvailableAllocation yields the free indices below cap in   *)
(* increasing order, each at most once, and then None, also when low       *)
(* indices of the bitmap are reserved.                                     *)
(***************************************************************************)
C20_SequentialOnce ==
    alloc.kind # "none"
        => /\ \A k, l \in 1..Len(alloc.yielded) :
                 k < l => alloc.yielded[k] < alloc.yielded[l]
           /\ alloc.done => SeqToSet(alloc.yielded) = FreeBelow(alloc.given, alloc.cap)

(***************************************************************************)
(* The emulator used on its own: handles are attached, one after the other,*)
(* to one host file, and serve read_block and write_block calls.           *)
(***************************************************************************)
\* the block counts given to open_disk and to the builder
EmuCounts == 0..MaxEmuBlocks

\* the buffers given to write_block: empty, half a block, a block, two blocks
EmuBufs ==
    {MkBuf(0, <<>>),
     MkBuf(BLOCK_SIZE_BYTES \div 2, [i \in 1..(BLOCK_SIZE_BYTES \div 2) |-> 170]),
     MkBuf(BLOCK_SIZE_BYTES, [i \in 1..BLOCK_SIZE_BYTES |-> 85]),
     MkBuf(2 * BLOCK_SIZE_BYTES,
           [i \in 1..(2 * BLOCK_SIZE_BYTES) |-> IF i <= BLOCK_SIZE_BYTES THEN 17 ELSE 34])}

\* the lengths of the buffers given to read_block
EmuReadLens == {BLOCK_SIZE_BYTES \div 2, BLOCK_SIZE_BYTES}

EmuOp(op, blocknr, buf, res, data) ==
    [op |-> op, blocknr |-> blocknr, buf |-> buf, res |-> res, data |-> data,
     before |-> emu]

EmuOpenDisk ==
    /\ emu.kind = "none"
    /\ emu.handles < MaxEmuHandles
    /\ \E n \in EmuCounts, checks \in BOOLEAN :
        /\ emu' = [open_disk(emu, n, checks) EXCEPT !.handles = @ + 1]
        /\ emu_last' = EmuOp("open_disk", n, MkBuf(0, <<>>), "Ok", <<>>)
    /\ UNCHANGED notemuvars

EmuBuild ==
    /\ emu.kind = "none"
    /\ emu.handles < MaxEmuHandles
    /\ \E n \in EmuCounts, checks \in BOOLEAN :
        LET r == builder_build(emu, n, checks)
        IN  /\ emu' = [r.emu EXCEPT !.handles = @ + 1]
            /\ emu_last' = EmuOp("build", n, MkBuf(0, <<>>),
                                 IF r.ok THEN "Ok" ELSE "Panic", <<>>)
    /\ UNCHANGED notemuvars

EmuBuildNoClear ==
    /\ emu.kind = "none"
    /\ emu.handles < MaxEmuHandles
    /\ \E n \in EmuCounts, checks \in BOOLEAN :
        LET r == builder_build_no_clear(emu, n, checks)
        IN  /\ emu' = [r.emu EXCEPT !.handles = @ + 1]
            /\ emu_last' = EmuOp("build_no_clear", n, MkBuf(0, <<>>),
                                 IF r.ok THEN "Ok" ELSE "Panic", <<>>)
    /\ UNCHANGED notemuvars

\* a panic ends the process: the handle is lost, the file stays
EmuLost(e) ==
    [e EXCEPT !.kind = "none", !.block_count = 0, !.readable = FALSE, !.checks = FALSE]

EmuReadBlock ==
    /\ emu.kind # "none"
    /\ emu.calls < MaxEmuCalls
    /\ \E n \in FileBlocks, buflen \in EmuReadLens :
        LET r == emu_read_block(emu, n, buflen)
        IN  /\ emu' = IF r.kind = "Panic" THEN [EmuLost(emu) EXCEPT !.calls = @ + 1]
                      ELSE [emu EXCEPT !.calls = @ + 1]
            /\ emu_last' = EmuOp("read_block", n, MkBuf(buflen, <<>>), r.kind, r.data)
    /\ UNCHANGED notemuvars

EmuWriteBlock ==
    /\ emu.kind # "none"
    /\ emu.calls < MaxEmuCalls
    /\ \E n \in FileBlocks, buf \in EmuBufs :
        LET w == emu_write_block(emu, n, buf)
        IN  /\ emu' = IF w.kind = "Panic" THEN [EmuLost(emu) EXCEPT !.calls = @ + 1]
                      ELSE [emu EXCEPT !.file = w.file, !.calls = @ + 1]
            /\ emu_last' = EmuOp("write_block", n, buf, w.kind, <<>>)
    /\ UNCHANGED notemuvars

\* sync_disk: fd.sync_all()
EmuSyncDisk ==
    /\ emu.kind # "none"
    /\ emu.calls < MaxEmuCalls
    /\ emu' = [emu EXCEPT !.calls = @ + 1]
    /\ emu_last' = EmuOp("sync_disk", 0, MkBuf(0, <<>>), "Ok", <<>>)
    /\ UNCHANGED notemuvars

\* the handle is dropped; the file stays
EmuDrop ==
    /\ emu.kind # "none"
    /\ emu' = EmuLost(emu)
    /\ emu_last' = EmuOp("drop", 0, MkBuf(0, <<>>), "Ok", <<>>)
    /\ UNCHANGED notemuvars

EmuNext ==
    \/ EmuOpenDisk
    \/ EmuBuild
    \/ EmuBuildNoClear
    \/ EmuReadBlock
    \/ EmuWriteBlock
    \/ EmuSyncDisk
    \/ EmuDrop

EmuSpec == Init /\ [][EmuNext]_vars

(***************************************************************************)
(* Vocabulary of the emulator properties.                                  *)
(***************************************************************************)
\* the last call was read_block or write_block on a handle
EmuCallDone(op) == emu_last.op = op /\ emu_last.before.kind # "none"

(***************************************************************************)
(* C21  Block-range enforcement: on every handle with nblocks blocks,      *)
(* read_block(n, buf) and write_block(n, buf) with n >= nblocks return an  *)
(* error, and the file keeps every byte and its length.                    *)
(***************************************************************************)
C21_RangeEnforced ==
    ((EmuCallDone("read_block") \/ EmuCallDone("write_block"))
        /\ emu_last.blocknr >= emu_last.before.block_count)
        => /\ emu_last.res = "Err"
           /\ emu.file = emu_last.before.file

(***************************************************************************)
(* C22  write_block(n, buf) with n < nblocks succeeds whatever the length  *)
(* of buf and writes the first min(4096, len(buf)) bytes of buf at offset  *)
(* n * 4096: the bytes of block n after them keep their contents, nothing  *)
(* is written past block n, and every other block is unchanged.            *)
(***************************************************************************)
C22_WriteFrame ==
    (EmuCallDone("write_block") /\ emu_last.blocknr < emu_last.before.block_count)
        => LET n   == emu_last.blocknr
               max == Min2(BLOCK_SIZE_BYTES, emu_last.buf.len)
               old == emu_last.before.file.blocks
               new == emu.file.blocks
           IN  /\ emu_last.res = "Ok"
               /\ \A k \in 0..(BLOCK_SIZE_BYTES - 1) :
                      ByteAt(new[n], k) = IF k < max THEN ByteAt(emu_last.buf.data, k)
                                          ELSE ByteAt(old[n], k)
               /\ \A m \in FileBlocks \ {n} : new[m] = old[m]

\* half a block was written over a block whose second half was not zero
C22_Witness ==
    /\ EmuCallDone("write_block")
    /\ emu_last.res = "Ok"
    /\ emu_last.blocknr < emu_last.before.block_count
    /\ emu_last.buf.len = BLOCK_SIZE_BYTES \div 2
    /\ Len(emu_last.before.file.blocks[emu_last.blocknr]) = BLOCK_SIZE_BYTES
    /\ Len(emu.file.blocks[emu_last.blocknr]) = BLOCK_SIZE_BYTES

(***************************************************************************)
(* C23  Block round trip: after write_block(n, b) with n < nblocks and a   *)
(* 4096-byte buffer b, read_block(n, buf) with a 4096-byte buffer returns  *)
(* exactly b, and read_block(m, buf) for every other block m returns what  *)
(* it returned before the write.                                           *)
(***************************************************************************)
C23_WriteThenRead ==
    (EmuCallDone("write_block") /\ emu_last.res = "Ok"
        /\ emu_last.blocknr < emu_last.before.block_count
        /\ emu_last.buf.len = BLOCK_SIZE_BYTES)
        => /\ emu_read_block(emu, emu_last.blocknr, BLOCK_SIZE_BYTES)
                  = [kind |-> "Ok", data |-> emu_last.buf.data]
           /\ \A m \in FileBlocks \ {emu_last.blocknr} :
                  emu_read_block(emu, m, BLOCK_SIZE_BYTES)
                      = emu_read_block(emu_last.before, m, BLOCK_SIZE_BYTES)

(***************************************************************************)
(* C24  The builder with block count n and the medium cleared returns a    *)
(* device whose n blocks are all zero and whose file is n * 4096 bytes     *)
(* long; with clear_medium(false) it returns a device whose file holds     *)
(* exactly the bytes it held before the build.                             *)
(***************************************************************************)
C24_BuilderMedium ==
    /\ (emu_last.op = "build" /\ emu_last.res = "Ok")
          => /\ \A b \in FileBlocks : b < emu.block_count => emu.file.blocks[b] = <<>>
             /\ emu.file.len = emu.block_count * BLOCK_SIZE_BYTES
    /\ (emu_last.op = "build_no_clear" /\ emu_last.res = "Ok")
          => emu.file = emu_last.before.file

(***************************************************************************)
(* The SuperBlock codec used on its own: a SuperBlock is serialized, the   *)
(* block is parsed with an expected magic.                                 *)
(***************************************************************************)
\* values of sb_magic
SbMagics == {SB_MAGIC, 0, 2147483647}

\* values of the count fields: zero, one byte, four different bytes, and the
\* largest value whose encoding the model's integers hold
SbCounts == {0, 80, 16909060, 2147483647}

SuperBlocks ==
    [sb_magic : SbMagics, inodes_count : SbCounts, blocks_count : SbCounts,
     reserved_blocks_count : {0, 16909060}, free_blocks_count : {0, 80},
     free_inodes_count : SbCounts]

\* s.serialize()
SbSerialize ==
    /\ codec.stage = "none"
    /\ \E s \in SuperBlocks :
        codec' = [NoCodec EXCEPT !.stage = "serialized", !.s = s,
                                 !.buf = SuperBlock_serialize(s)]
    /\ UNCHANGED notcodecvars

\* SuperBlock::parse of the serialization, or of its first 512 bytes, with the
\* SuperBlock's own magic or another one; ok = FALSE is the panic
SbParse ==
    /\ codec.stage = "serialized"
    /\ \E magic \in SbMagics, len \in {BLOCK_SIZE, BLOCK_SIZE \div 8} :
        LET p == SuperBlock_parse(MkBuf(len, codec.buf.data), magic)
        IN  codec' = [codec EXCEPT !.stage = "parsed", !.buf = MkBuf(len, codec.buf.data),
                                   !.magic = magic, !.ok = p.ok, !.sb = p.sb]
    /\ UNCHANGED notcodecvars

SbDrop ==
    /\ codec.stage = "parsed"
    /\ codec' = NoCodec
    /\ UNCHANGED notcodecvars

CodecNext ==
    \/ SbSerialize
    \/ SbParse
    \/ SbDrop

CodecSpec == Init /\ [][CodecNext]_vars

LE32(v) == <<LEByte(v, 0), LEByte(v, 1), LEByte(v, 2), LEByte(v, 3)>>

\* the last call was a create that returned a handle
CreateDone == last.op = "create" /\ last.res.kind = "Ok"

(***************************************************************************)
(* C26  After create, block 0 is the little-endian encoding of the default *)
(* superblock: the bytes 42 53 46 53 of the magic, then the little-endian  *)
(* u32 fields inodes_count = 80, blocks_count = 56, reserved_blocks_count  *)
(* = 0, free_blocks_count = 0, free_inodes_count = 80, free_list = 0, and  *)
(* zeros from byte 28 to the end of the block.                             *)
(***************************************************************************)
C26_SuperBlockImage ==
    CreateDone
        => /\ SubSeq(dev[SUPERBLOCK_INDEX], 1, 4) = <<66, 83, 70, 83>>
           /\ dev[SUPERBLOCK_INDEX]
                  = Trim(LE32(SB_MAGIC) \o LE32(80) \o LE32(56) \o LE32(0) \o LE32(0)
                             \o LE32(80) \o LE32(0))

(***************************************************************************)
(* C27  After create on a cleared 64-block device, block 1 (the data       *)
(* bitmap) is all zeros, block 2 (the inode bitmap) has exactly bit 0 set, *)
(* block 3 holds the root inode record (mode 0x4000, every block pointer   *)
(* 0) in slot 0 and zeros in every other slot, blocks 4..63 are still      *)
(* zero, and the bitmaps and the inode group of the returned handle are    *)
(* what was written.                                                       *)
(***************************************************************************)
C27_CreateImage ==
    [][(handle = "dev" /\ dev = ZeroDev /\ last'.op = "create" /\ last'.res.kind = "Ok")
        => /\ dev'[DATA_REGION_BMP] = <<>>
           /\ dev'[INODE_BMP] = <<1>>
           /\ Bitmap_parse(dev'[INODE_BMP]) = {0}
           /\ SlotBytes(dev'[INODE_START], 0) = Inode_as_bytes(inodes'.nodes[0])
           /\ Inode_parse(dev'[INODE_START], 0).mode = 16384
           /\ \A k \in 1..NBLOCKPTRS : Inode_parse(dev'[INODE_START], 0).blocks[k] = 0
           /\ Len(dev'[INODE_START]) <= NODE_SIZE
           /\ \A b \in (INODE_START + 1)..(DeviceBlocks - 1) : dev'[b] = <<>>
           /\ data_map' = Bitmap_parse(dev'[DATA_REGION_BMP])
           /\ inodes'.alloc_tracker = Bitmap_parse(dev'[INODE_BMP])
           /\ DOMAIN inodes'.nodes = {0}
           /\ inodes'.nodes[0] = Inode_parse(dev'[INODE_START], 0)
      ]_vars

\* create returned a handle on a container whose blocks 4..63 are zero and
\* whose inode table holds the root record
C27_Witness ==
    /\ CreateDone
    /\ handle = "fs"
    /\ dev[INODE_BMP] = <<1>>
    /\ dev[INODE_START] = <<0, 64>>
    /\ \A b \in (INODE_START + 1)..(DeviceBlocks - 1) : dev[b] = <<>>

(***************************************************************************)
(* The InodeGroup used on its own: a group is made, or opened over an      *)
(* allocation bitmap and an inode table, and serves new_file calls.        *)
(***************************************************************************)
\* the allocation bitmaps a group is opened with: empty, the root only, a
\* gap below the highest bit, a full first block, one inumber left, with
\* bits past the cap, and full
GrpBitmaps ==
    {Bitmap_new, {0}, {0, 2, 17}, 0..(NODES_PER_BLOCK - 1), 0..(INODE_CAP - 2),
     (0..(INODE_CAP - 2)) \cup {INODE_CAP, INODE_CAP + 1}, 0..(INODE_CAP - 1)}

GrpOp(op, res, inum) == [op |-> op, res |-> res, inum |-> inum, before |-> grp.g]

\* InodeGroup::new(Bitmap::new())
GrpNew ==
    /\ ~grp.made
    /\ grp' = [made |-> TRUE, g |-> InodeGroup_new(Bitmap_new), files |-> 0]
    /\ grp_last' = GrpOp("new", "Ok", 0)
    /\ UNCHANGED notgrpvars

\* InodeGroup::open(bitmap) and load_block of the five blocks of a zeroed
\* inode table
GrpOpen ==
    /\ ~grp.made
    /\ \E bitmap \in GrpBitmaps :
        grp' = [made |-> TRUE,
                g |-> LoadBlocks(InodeGroup_open(bitmap), ZeroDev, DeviceBlocks,
                                 INODE_START).group,
                files |-> 0]
    /\ grp_last' = GrpOp("open", "Ok", 0)
    /\ UNCHANGED notgrpvars

\* new_file; the abort ends the process and the group is lost
GrpNewFile ==
    /\ grp.made
    /\ grp.files < MaxNewFiles
    /\ LET r == new_file(grp.g)
       IN  IF r.ok
           THEN /\ grp' = [grp EXCEPT !.g = r.group, !.files = @ + 1]
                /\ grp_last' = GrpOp("new_file", "Ok", r.inum)
           ELSE /\ grp' = NoGroup
                /\ grp_last' = GrpOp("new_file", "Panic", 0)
    /\ UNCHANGED notgrpvars

GrpDrop ==
    /\ grp.made
    /\ grp' = NoGroup
    /\ grp_last' = GrpOp("drop", "Ok", 0)
    /\ UNCHANGED notgrpvars

\* the inode table as serialize_block writes its first n blocks into a
\* zeroed table
TableImage(g, n) ==
    [b \in 0..(INODE_BLOCKS - 1) |-> IF b < n THEN serialize_block(g, b).data ELSE <<>>]

TablePanics(n) == \E b \in 0..(n - 1) : serialize_block_panics(b)

RECURSIVE LoadTable(_, _, _)
\* load_block of every block of the table, as open does
LoadTable(g, table, b) ==
    IF b >= INODE_BLOCKS THEN g
    ELSE LoadTable(load_block(g, b, table[b]), table, b + 1)

\* the first n blocks of the inode table are serialized, and the table is
\* loaded into a group opened with the allocation bitmap of this one
GrpReload ==
    /\ grp.made
    /\ grp_last.op # "reload"
    /\ \E n \in {1, 2, INODE_BLOCKS} :
        IF TablePanics(n)
        THEN /\ grp' = NoGroup
             /\ grp_last' = GrpOp("reload", "Panic", n)
        ELSE /\ grp' = [grp EXCEPT !.g = LoadTable(InodeGroup_open(allocations(grp.g)),
                                                   TableImage(grp.g, n), 0)]
             /\ grp_last' = GrpOp("reload", "Ok", n)
    /\ UNCHANGED notgrpvars

GroupNext ==
    \/ GrpNew
    \/ GrpOpen
    \/ GrpNewFile
    \/ GrpReload
    \/ GrpDrop

GroupSpec == Init /\ [][GroupNext]_vars

\* the last call on the group was op
GrpDone(op) == grp_last.op = op

(***************************************************************************)
(* C28  new_file returns the lowest inumber in [0, 80) that is free in the *)
(* inode allocation bitmap, inserts a default regular-file inode (mode     *)
(* 0x2000, every block pointer 0) at that inumber, marks exactly that bit  *)
(* reserved, and leaves every inode that was present and every other bit   *)
(* as they were.                                                           *)
(***************************************************************************)
C28_NewFileLowestFree ==
    (GrpDone("new_file") /\ grp_last.res = "Ok")
        => LET b == grp_last.before
               i == grp_last.inum
           IN  /\ i \in 0..79
               /\ i \notin b.alloc_tracker
               /\ \A j \in 0..(i - 1) : j \in b.alloc_tracker
               /\ DOMAIN grp.g.nodes = (DOMAIN b.nodes) \cup {i}
               /\ grp.g.nodes[i].mode = 8192
               /\ \A k \in 1..NBLOCKPTRS : grp.g.nodes[i].blocks[k] = 0
               /\ grp.g.alloc_tracker = b.alloc_tracker \cup {i}
               /\ \A j \in (DOMAIN b.nodes) \ {i} : grp.g.nodes[j] = b.nodes[j]

\* new_file filled the gap below two reserved inumbers
C28_Witness ==
    /\ GrpDone("new_file")
    /\ grp_last.res = "Ok"
    /\ grp_last.inum = 1
    /\ {0, 2, 17} \subseteq grp_last.before.alloc_tracker
    /\ 1 \in grp.g.alloc_tracker
    /\ grp.g.nodes[1] = Inode_default

(***************************************************************************)
(* C29  Inode exhaustion: when all 80 inumbers are reserved new_file       *)
(* aborts instead of returning; it never returns an inumber >= 80 nor one  *)
(* that was reserved, and the group never holds more than 80 inodes.       *)
(***************************************************************************)
C29_Exhaustion ==
    /\ (GrpDone("new_file") /\ (0..79) \subseteq grp_last.before.alloc_tracker)
          => grp_last.res = "Panic"
    /\ (GrpDone("new_file") /\ grp_last.res = "Ok")
          => /\ grp_last.inum < 80
             /\ grp_last.inum \notin grp_last.before.alloc_tracker
    /\ total_nodes(grp.g) <= 80

\* new_file aborted on a group whose 80 inumbers were reserved
C29_Witness ==
    /\ GrpDone("new_file")
    /\ grp_last.res = "Panic"
    /\ (0..79) \subseteq grp_last.before.alloc_tracker
    /\ total_nodes(grp_last.before) = 80

(***************************************************************************)
(* C30  Inode-table round trip: for any set of inumbers in [0, 80) held by *)
(* a group, also inumbers of table blocks after the first such as 16,      *)
(* serializing the blocks of the inode table and loading them into a group *)
(* opened with a bitmap that marks exactly those inumbers gives a group    *)
(* with the same inumbers, each mapped to the record it had before.        *)
(***************************************************************************)
C30_TableRoundTrip ==
    (GrpDone("reload") /\ grp_last.before.alloc_tracker = DOMAIN grp_last.before.nodes)
        => /\ grp_last.res = "Ok"
           /\ total_nodes(grp.g) = total_nodes(grp_last.before)
           /\ DOMAIN grp.g.nodes = DOMAIN grp_last.before.nodes
           /\ \A i \in DOMAIN grp_last.before.nodes : grp.g.nodes[i] = grp_last.before.nodes[i]

(***************************************************************************)
(* C31  Directory round trip: when open_file(CREATE) has handed the root   *)
(* directory's entries, with the new name added, to write_dir and the call *)
(* succeeded, read_dir of the root succeeds and returns exactly these      *)
(* entries.                                                                *)
(***************************************************************************)
C31_DirRoundTrip ==
    [][(IsOpenFileStep /\ last'.mode = "CREATE" /\ last'.res.kind = "Ok"
            /\ last'.reads = 1)
        => LET before  == read_dir(Fs, dev, DeviceBlocks, 0).entries
               part    == Components(last'.path).parts[1]
               entries == [n \in (DOMAIN before) \cup {part} |->
                              IF n = part THEN last'.res.val ELSE before[n]]
               rd      == read_dir(Fs', dev', DeviceBlocks, 0)
           IN  /\ rd.res.kind = "Ok"
               /\ rd.entries = entries]_vars

(***************************************************************************)
(* Vocabulary of the read_file property.                                   *)
(***************************************************************************)
\* the pointers of an inode that lie in the data region, in array order
DataPointers(node) ==
    SelectSeq(node.blocks, LAMBDA b : b >= FIRST_DATA_PTR /\ b <= DeviceBlocks - 1)

\* the BLOCK_SIZE bytes of block b
FullBlock(d, b) == [k \in 1..BLOCK_SIZE |-> ByteAt(d[b], k - 1)]

RECURSIVE BlocksContent(_, _)
\* the full contents of the blocks of a list, one after the other
BlocksContent(d, blocks) ==
    IF blocks = <<>> THEN <<>>
    ELSE FullBlock(d, Head(blocks)) \o BlocksContent(d, Tail(blocks))

(***************************************************************************)
(* C32  On the handle an open_file call leaves, read_file of a present     *)
(* inode succeeds and returns the full contents of its blocks with         *)
(* pointers in 8..63, in array order, |owned| * 4096 bytes in all; every   *)
(* block the call's write_dir wrote to is among the blocks read_file of    *)
(* the directory reads; and read_file of an absent inumber fails with      *)
(* DoesNotExist.                                                           *)
(***************************************************************************)
C32_ReadFile ==
    [][(IsOpenFileStep /\ last'.res.kind # "Panic")
        => /\ \A i \in 0..INODE_CAP :
                LET r == read_file(Fs', dev', DeviceBlocks, i)
                IN  IF i \in DOMAIN inodes'.nodes
                    THEN LET owned == DataPointers(inodes'.nodes[i])
                         IN  /\ r.res.kind = "Ok"
                             /\ Len(r.content) = Len(owned) * BLOCK_SIZE
                             /\ r.content = BlocksContent(dev', owned)
                    ELSE r.res = ErrRes("DoesNotExist")
           /\ {b \in 0..(DeviceBlocks - 1) : dev'[b] # dev[b]}
                  \subseteq SeqToSet(DataPointers(inodes'.nodes[0]))]_vars

(***************************************************************************)
(* Vocabulary of the fault property.                                       *)
(***************************************************************************)
\* the block write_dir writes the first chunk of the root's payload to
FirstTarget(fs) ==
    LET own == OwnedForWrite(fs.inodes.nodes[0])
    IN  IF own # <<>> THEN own[1]
        ELSE fs_NextAvailableAllocation_next(0, fs.data_map).idx

(***************************************************************************)
(* C33  A block I/O fault inside create, open or open_file is returned as  *)
(* InvalidBlock: create on a device without blocks 0..3, open on a         *)
(* formatted container whose device lacks one of blocks 0..7, and an       *)
(* open_file(CREATE) whose write_dir writes to a block past the device's   *)
(* count all return Err(InvalidBlock); none of them aborts.                *)
(***************************************************************************)
C33_FaultsReturned ==
    [][/\ (handle = "dev" /\ last'.op = "create" /\ dev_block_count <= INODE_START)
            => last'.res = ErrRes("InvalidBlock")
       /\ (handle = "dev" /\ last'.op = "open"
                /\ StoredMagic(dev[SUPERBLOCK_INDEX]) = SB_MAGIC
                /\ dev_block_count < INODE_START + INODE_BLOCKS)
            => last'.res = ErrRes("InvalidBlock")
       /\ (IsOpenFileStep /\ last'.mode = "CREATE" /\ last'.reads = 1
                /\ 0 \in DOMAIN inodes.nodes
                /\ beyond_range(dev_block_count, FirstTarget(Fs)))
            => last'.res = ErrRes("InvalidBlock")]_vars

(***************************************************************************)
(* C34  Allocator usage protocol: when every index a NextAvailableAllocation*)
(* has yielded is reserved in the caller's bitmap at the time next() is    *)
(* called again, the index next() yields is none of those yielded before.  *)
(***************************************************************************)
C34_ProtocolNoRepeat ==
    [][(/\ alloc.kind # "none"
        /\ Len(alloc'.yielded) = Len(alloc.yielded) + 1
        /\ SeqToSet(alloc.yielded) \subseteq bmp)
        => alloc'.yielded[Len(alloc'.yielded)] \notin SeqToSet(alloc.yielded)]_vars

(***************************************************************************)
(* C35  A failing open_file leaves the file system unchanged: when the     *)
(* call returns InvalidArgument or DoesNotExist, the inode group with its  *)
(* allocation bitmap, the data bitmap, the superblock in memory and every  *)
(* block of the container are what they were before the call.              *)
(***************************************************************************)
C35_FailingOpenFileKeeps ==
    [][(IsOpenFileStep /\ last'.res \in {ErrRes("InvalidArgument"), ErrRes("DoesNotExist")})
        => /\ inodes' = inodes
           /\ data_map' = data_map
           /\ super_block' = super_block
           /\ dev' = dev]_vars

\* a missing name was refused on a handle that holds a created file
C35_Witness ==
    /\ last.op = "open_file"
    /\ last.res = ErrRes("DoesNotExist")
    /\ handle = "fs"
    /\ created # {}
    /\ data_map # {}
    /\ Cardinality(DOMAIN inodes.nodes) > 1

(***************************************************************************)
(* C36  Directory payload writes never touch metadata: an open_file call   *)
(* leaves block 0 as it was, with the magic 0x53465342 in it; it leaves    *)
(* each of blocks 1..7 as it was or holding the flushed image of the data  *)
(* bitmap, of the inode bitmap or of its inode-table block; and after a    *)
(* successful open_file(CREATE) SFS::open on the container passes the      *)
(* magic check.                                                            *)
(***************************************************************************)
C36_PayloadOffMetadata ==
    [][(IsOpenFileStep /\ origin = "create")
        => /\ dev'[SUPERBLOCK_INDEX] = dev[SUPERBLOCK_INDEX]
           /\ StoredMagic(dev'[SUPERBLOCK_INDEX]) = SB_MAGIC
           /\ dev'[DATA_REGION_BMP]
                  \in {dev[DATA_REGION_BMP], Bitmap_serialize(data_map').data}
           /\ dev'[INODE_BMP]
                  \in {dev[INODE_BMP], Bitmap_serialize(allocations(inodes')).data}
           /\ \A b \in INODE_START..(FIRST_DATA_PTR - 1) :
                  \/ dev'[b] = dev[b]
                  \/ /\ ~serialize_block_panics(b - INODE_START)
                     /\ dev'[b] = serialize_block(inodes', b - INODE_START).data
           /\ (last'.mode = "CREATE" /\ last'.res.kind = "Ok")
                  => SFS_open(dev', DeviceBlocks).res
                         # PanicRes("Superblock magic constant invalid.")]_vars

(***************************************************************************)
(* C37  Repeated creation accumulates entries: on a handle mounted by      *)
(* create on which open_file(CREATE) has succeeded for k pairwise distinct *)
(* names, the k inumbers returned are pairwise distinct and not 0,         *)
(* total_nodes() is k + 1, and open_file of each of the names, in any      *)
(* mode, returns the inumber returned when the name was created.           *)
(***************************************************************************)
C37_CreationAccumulates ==
    (FromCreate /\ Cardinality(CreatedNames) = Cardinality(created))
        => /\ \A e \in created : e[2] # 0
           /\ Cardinality({e[2] : e \in created}) = Cardinality(created)
           /\ total_nodes(inodes) = Cardinality(created) + 1
           /\ \A e \in created, mode \in Modes :
                  \A order \in Orders(EntryNames(<<CH_SLASH>> \o e[1])) :
                      open_file(Fs, dev, dev_block_count, <<CH_SLASH>> \o e[1], mode, order).res
                          = OkRes(e[2])

(***************************************************************************)
(* C38  Remount equivalence: when open_file(p, CREATE) has allocated       *)
(* inumber n and returned it, SFS::open on the container succeeds, the     *)
(* mounted inode group holds inumber n, the mounted bitmaps and inode      *)
(* records are those of the handle in memory, and open_file(p, RO) on the  *)
(* mounted handle returns n.                                               *)
(***************************************************************************)
C38_RemountEquivalence ==
    (/\ handle = "fs"
     /\ last.op = "open_file" /\ last.mode = "CREATE" /\ last.res.kind = "Ok"
     /\ last.reads = 1)
        => LET m == SFS_open(dev, dev_block_count)
               n == last.res.val
           IN  /\ m.res.kind = "Ok"
               /\ n \in DOMAIN m.fs.inodes.nodes
               /\ m.fs.inodes = inodes
               /\ m.fs.data_map = data_map
               /\ open_file(m.fs, dev, dev_block_count, last.path, "RO", <<>>).res = OkRes(n)

====
